---- MODULE Spec2Model ----
(***************************************************************************)
(* A model of stitch-schemata: the Stitch orchestrator (Stitch.py), the    *)
(* canvas compositing of Image.merge_data, and the TileExtractor.          *)
(*                                                                         *)
(* Lengths are pixels.  Angles are integers, counted in a fixed small      *)
(* angular unit; a page of the model is a few pixels wide, so that every   *)
(* pixel of a canvas can be tracked.  A pixel of a page is represented by  *)
(* its provenance <<page index, x, y>>; a pixel of the blank canvas is     *)
(* White.                                                                  *)
(***************************************************************************)
EXTENDS Integers, Sequences, FiniteSets, TLC

VARIABLES
    cfg,               \* Config: the immutable parameters of the run
    pc,                \* the position of the run inside Stitch.stitch
    index,             \* the page index of the running loop (0-based, as in the code)
    original_images,   \* Stitch._original_images
    grayscale_images,  \* Stitch._grayscale_images
    metadata,          \* Stitch._metadata
    local,             \* the locals of the running PHASE1 / PHASE2 helper
    stitched_image,    \* Stitch._stitched_image (stitch_data while painting)
    files,             \* the file system: the output file and the temp directory
    hist,              \* history of the run: attempts, rounds, the last merge_data call
    page,              \* TileExtractor._image: the page handed to a TileExtractor
    tiles              \* the tiles returned by TileExtractor.extract_tiles

vars == <<cfg, pc, index, original_images, grayscale_images, metadata, local,
          stitched_image, files, hist, page, tiles>>

(***************************************************************************)
(* Bounds of the model.                                                    *)
(***************************************************************************)
MaxCanvasPages == 3

(***************************************************************************)
(* Arithmetic helpers.                                                     *)
(***************************************************************************)
Max2(a, b) == IF a >= b THEN a ELSE b

Min2(a, b) == IF a <= b THEN a ELSE b

Abs(a) == IF a < 0 THEN -a ELSE a

Square(a) == a * a

None == "None"

White == "white"

(***************************************************************************)
(* numpy basic slicing a[lo:hi] of an axis of length n: a negative bound   *)
(* counts from the end, bounds are clamped to 0..n, and an empty range has *)
(* length 0.                                                               *)
(***************************************************************************)
SliceBound(i, n) == IF i < 0 THEN Max2(i + n, 0) ELSE Min2(i, n)

NSlice(lo, hi, n) ==
    [lo |-> SliceBound(lo, n),
     len |-> Max2(0, SliceBound(hi, n) - SliceBound(lo, n))]

(***************************************************************************)
(* numpy assignment dest[...] = source[...]: along each axis the source    *)
(* length equals the destination length, or is 1 and is broadcast;         *)
(* anything else raises ValueError.                                        *)
(***************************************************************************)
Broadcasts(slen, dlen) == slen = dlen \/ slen = 1

(***************************************************************************)
(* Image: width, height and the pixels.                                    *)
(***************************************************************************)
Coords(width, height) == (0 .. width - 1) \X (0 .. height - 1)

EmptyImage == [width |-> 0, height |-> 0, px |-> <<>>]

BlankCanvas(width, height) ==
    [width |-> width, height |-> height,
     px |-> [c \in Coords(width, height) |-> White]]

PagePixels(k, width, height) ==
    [width |-> width, height |-> height,
     px |-> [c \in Coords(width, height) |-> <<k, c[1], c[2]>>]]

(***************************************************************************)
(* Image.rotation_has_effect: abs(angle) >= atan2(1, max(size) // 2).      *)
(* With the angle counted in units of 1/4 radian-equivalent and the        *)
(* small-angle tangent, |angle| >= atan(1/n) iff |angle| * n >= 4; for     *)
(* n = 0 the threshold is 90 degrees, which no angle of the model reaches. *)
(***************************************************************************)
RotationHasEffect(width, height, angle) ==
    Abs(angle) * (Max2(width, height) \div 2) >= 4

(***************************************************************************)
(* Image.rotate: the image itself when the rotation has no effect, else    *)
(* the rotated image cropped to the largest inscribed rectangle, which is  *)
(* smaller the larger the angle.  A page image of the alignment is its     *)
(* size and the angle it was rotated by.                                   *)
(***************************************************************************)
RotationLoss(angle) == (Abs(angle) + 1) \div 2

RotatedWidth(width, height, angle) ==
    IF RotationHasEffect(width, height, angle)
    THEN Max2(1, width - RotationLoss(angle)) ELSE width

RotatedHeight(width, height, angle) ==
    IF RotationHasEffect(width, height, angle)
    THEN Max2(1, height - RotationLoss(angle)) ELSE height

Rotate(image, angle) ==
    [width |-> RotatedWidth(image.width, image.height, angle),
     height |-> RotatedHeight(image.width, image.height, angle),
     angle |-> IF RotationHasEffect(image.width, image.height, angle)
               THEN angle ELSE image.angle]

(***************************************************************************)
(* ScanMetadata.                                                           *)
(***************************************************************************)
ScanMetadata(rotate, translate_x, translate_y, width, height) ==
    [rotate |-> rotate, translate_x |-> translate_x, translate_y |-> translate_y,
     width |-> width, height |-> height]

(***************************************************************************)
(* Stitch._stitch_images: the running sums offset_x += page.translate_x    *)
(* and offset_y += page.translate_y over pages 1..k of the metadata.       *)
(***************************************************************************)
RECURSIVE SumTranslateX(_, _)
SumTranslateX(meta, k) ==
    IF k = 0 THEN 0 ELSE SumTranslateX(meta, k - 1) + meta[k].translate_x

RECURSIVE SumTranslateY(_, _)
SumTranslateY(meta, k) ==
    IF k = 0 THEN 0 ELSE SumTranslateY(meta, k - 1) + meta[k].translate_y

(***************************************************************************)
(* Stitch._stitch_images, first loop: offset_y0 is the running offset_y    *)
(* of the last page at which it was negative (0 if never).                 *)
(***************************************************************************)
RECURSIVE OffsetY0(_, _)
OffsetY0(meta, k) ==
    IF k = 0 THEN 0
    ELSE IF SumTranslateY(meta, k) < 0 THEN SumTranslateY(meta, k)
         ELSE OffsetY0(meta, k - 1)

(***************************************************************************)
(* Stitch._stitch_images, second loop: total_width is offset_x +           *)
(* page.width of the last page; total_height the running maximum of        *)
(* offset_y + page.height with offset_y started at -offset_y0.             *)
(***************************************************************************)
TotalWidth(meta) ==
    IF Len(meta) = 0 THEN 0
    ELSE SumTranslateX(meta, Len(meta)) + meta[Len(meta)].width

RECURSIVE TotalHeightUpTo(_, _)
TotalHeightUpTo(meta, k) ==
    IF k = 0 THEN 0
    ELSE Max2(TotalHeightUpTo(meta, k - 1),
              -OffsetY0(meta, Len(meta)) + SumTranslateY(meta, k) + meta[k].height)

TotalHeight(meta) == TotalHeightUpTo(meta, Len(meta))

(***************************************************************************)
(* Stitch._stitch_images, third loop: the columns of a page that are not   *)
(* painted: none of page 0, margin + tile_width // 2 of every later page.  *)
(***************************************************************************)
OverlapX(config, i) ==
    IF i = 0 THEN 0 ELSE config.margin + config.tile_width \div 2

(***************************************************************************)
(* Image.merge_data: the four ranges of the slice assignment.              *)
(***************************************************************************)
MergeRanges(width1, height1, width2, height2, offset_x, offset_y, overlap_x) ==
    LET x1_min == Max2(0, offset_x + overlap_x)
        x1_max == Min2(width1, width2 + offset_x)
        y1_min == Max2(0, offset_y)
        y1_max == Min2(height1, height2 + offset_y)
        y2_min == Max2(0, -offset_y)
        y2_max == y2_min + y1_max - y1_min
        x2_min == Max2(0, overlap_x)
        x2_max == Min2(width2, width2 + offset_x)
    IN  [dcols |-> NSlice(x1_min, x1_max, width1),
         drows |-> NSlice(y1_min, y1_max, height1),
         scols |-> NSlice(x2_min, x2_max, width2),
         srows |-> NSlice(y2_min, y2_max, height2)]

(***************************************************************************)
(* Image.merge_data: the assignment itself.  ok is FALSE when numpy raises *)
(* ValueError; copied is the set of destination pixels assigned.  The      *)
(* ranges r are computed once per call.                                    *)
(***************************************************************************)
MergeSlices(destination, source, r) ==
    LET ok == /\ Broadcasts(r.srows.len, r.drows.len)
              /\ Broadcasts(r.scols.len, r.dcols.len)
        assigned(c) == /\ c[1] >= r.dcols.lo /\ c[1] < r.dcols.lo + r.dcols.len
                       /\ c[2] >= r.drows.lo /\ c[2] < r.drows.lo + r.drows.len
        from(c) == <<r.scols.lo + (IF r.scols.len = 1 THEN 0 ELSE c[1] - r.dcols.lo),
                     r.srows.lo + (IF r.srows.len = 1 THEN 0 ELSE c[2] - r.drows.lo)>>
    IN  [ok |-> ok,
         copied |-> IF ok
                    THEN {c \in Coords(destination.width, destination.height) :
                             assigned(c)}
                    ELSE {},
         image |-> IF ok
                   THEN [destination EXCEPT !.px =
                            [c \in Coords(destination.width, destination.height) |->
                                IF assigned(c) THEN source.px[from(c)]
                                ELSE destination.px[c]]]
                   ELSE destination]

MergeData(destination, source, offset_x, offset_y, overlap_x) ==
    CHOOSE merged \in
        {MergeSlices(destination, source, r) :
            r \in {MergeRanges(destination.width, destination.height,
                               source.width, source.height,
                               offset_x, offset_y, overlap_x)}} : TRUE

(***************************************************************************)
(* Stitch._crop_stitched_image: start and stop of the row slice.           *)
(***************************************************************************)
RECURSIVE CropStart(_, _)
CropStart(meta, k) ==
    IF k = 0 THEN 0 ELSE Max2(CropStart(meta, k - 1), SumTranslateY(meta, k))

RECURSIVE CropStop(_, _, _)
CropStop(meta, k, height) ==
    IF k = 0 THEN height
    ELSE Min2(CropStop(meta, k - 1, height), meta[k].height + SumTranslateY(meta, k))

CropRows(meta, image) ==
    LET rows == NSlice(CropStart(meta, Len(meta)),
                       CropStop(meta, Len(meta), image.height), image.height)
    IN  [width |-> image.width, height |-> rows.len,
         px |-> [c \in Coords(image.width, rows.len) |-> image.px[<<c[1], c[2] + rows.lo>>]]]

(***************************************************************************)
(* Config (stitch/Config.py; tile_fraction is read by the TileExtractor).  *)
(* ext stands for the extension of output_path, debug for io.is_debug(),   *)
(* tile_hint for the entry of tile_hints of the page at hand, and          *)
(* tile_fraction is the rational tile_fraction[1] / tile_fraction[2].      *)
(* paths is the number of scanned pages handed to Stitch.  A match score   *)
(* is 0 (below tile_match_min) or 1 (tile_match_min or above).             *)
(* BaseConfig is the configuration the configurations of the model vary.   *)
(***************************************************************************)
NoHint == <<>>

OutputPath(extension) == <<"o">> \o extension

BaseConfig ==
    [paths |-> 1, margin |-> 0, vertical_offset_max |-> 2, rotation_max |-> 2,
     tile_width |-> 2, tile_height |-> 2, tile_fraction |-> <<1, 4>>,
     tile_match_min |-> 1, tile_iterations_max |-> 2, crop |-> FALSE,
     output_path |-> OutputPath(<<".", "p", "n", "g">>), ocr |-> FALSE,
     ocr_confidence_min |-> 1, debug |-> FALSE, tile_hint |-> NoHint]

(***************************************************************************)
(* Tile (stitch/Tile.py): the origin, the match score and the size of the  *)
(* tile image.                                                             *)
(***************************************************************************)
MatchedTile(x, y, match, width, height) ==
    [x |-> x, y |-> y, match |-> match, width |-> width, height |-> height]

NoTile == MatchedTile(0, 0, 0, 0, 0)

(***************************************************************************)
(* The locals of the PHASE1 helper (side .. angle_delta) and the           *)
(* ScanMetadata it returns (meta), those of the PHASE2 helper              *)
(* (the vertical band, x0 = meta.rotate, the number of evaluations of fun  *)
(* made by minimize and the best point so far) and the tiles of the last   *)
(* extract/find of the helper that returned.                               *)
(***************************************************************************)
NoMeta == ScanMetadata(0, 0, 0, 0, 0)

NoLocal ==
    [side |-> None, sign |-> 0, index_extract |-> 0, index_matched |-> 0,
     hints |-> NoHint, iteration |-> 0, detected |-> FALSE,
     angle |-> 0, angle_delta |-> 0, meta |-> NoMeta, vertical_band_x |-> 0,
     vertical_band_width |-> 0, x0 |-> 0,
     evals |-> 0, best |-> 0, tile_extract |-> NoTile, tile_match |-> NoTile]

NoMerge ==
    [called |-> FALSE, ok |-> FALSE, index |-> 0, destination |-> EmptyImage,
     source_width |-> 0, source_height |-> 0,
     offset_x |-> 0, offset_y |-> 0, overlap_x |-> 0, copied |-> {}]

NoAttempts == [forward |-> 0, reverse |-> 0]

NoHist ==
    [merge |-> NoMerge, error |-> "", attempts |-> NoAttempts, rounds |-> NoAttempts,
     matches |-> <<>>,
     forward_failed |-> FALSE]

(***************************************************************************)
(* The file system: the number of times the file at output_path was        *)
(* opened for writing, the debug dumps in the temp directory and the       *)
(* working files of the encoders in the temp directory.                    *)
(***************************************************************************)
NoFiles == [output |-> 0, tmp |-> 0, work |-> 0]

(***************************************************************************)
(* Stitch._stitch_images, lines 397-414: the canvas is allocated with      *)
(* np.full((total_height, total_width, 3), white), which raises            *)
(* ValueError for a negative dimension.                                    *)
(***************************************************************************)
StitchAlloc ==
    /\ pc = "stitch"
    /\ IF TotalWidth(metadata) < 0 \/ TotalHeight(metadata) < 0
       THEN /\ pc' = "error"
            /\ hist' = [hist EXCEPT !.error = "ValueError"]
            /\ UNCHANGED <<index, stitched_image>>
       ELSE /\ stitched_image' = BlankCanvas(TotalWidth(metadata), TotalHeight(metadata))
            /\ index' = 0
            /\ pc' = "paint"
            /\ hist' = hist
    /\ UNCHANGED <<cfg, original_images, grayscale_images, metadata, local, files,
                   page, tiles>>

(***************************************************************************)
(* Stitch._stitch_images, lines 416-432: one round of the painting loop.   *)
(* The page painted is the original image rotated by the stored rotation;  *)
(* offset_x and offset_y are the running sums started at 0.                *)
(***************************************************************************)
PaintSource(i) ==
    PagePixels(i,
               RotatedWidth(original_images[i + 1].width, original_images[i + 1].height,
                            metadata[i + 1].rotate),
               RotatedHeight(original_images[i + 1].width, original_images[i + 1].height,
                             metadata[i + 1].rotate))

PaintOffsetXLast(meta, i) == meta[i + 1].translate_x

PaintOffsetX(meta, i) == SumTranslateX(meta, i + 1)

PaintOffsetY(meta, i) == SumTranslateY(meta, i + 1)

PaintPage ==
    /\ pc = "paint"
    /\ index < Len(metadata)
    /\ \E offset_x \in {PaintOffsetX(metadata, index)},
          offset_y \in {PaintOffsetY(metadata, index)},
          overlap_x \in {OverlapX(cfg, index)} :
       \E m \in {MergeData(stitched_image, PaintSource(index), offset_x, offset_y,
                           overlap_x)} :
           /\ hist' = [hist EXCEPT !.merge =
                          [called |-> TRUE, ok |-> m.ok, index |-> index,
                           destination |-> stitched_image,
                           source_width |-> PaintSource(index).width,
                           source_height |-> PaintSource(index).height,
                           offset_x |-> offset_x, offset_y |-> offset_y,
                           overlap_x |-> overlap_x, copied |-> m.copied],
                                       !.error = IF m.ok THEN "" ELSE "ValueError"]
           /\ IF ~m.ok
              THEN /\ pc' = "error"
                   /\ UNCHANGED <<index, stitched_image>>
              ELSE /\ stitched_image' = m.image
                   /\ IF index + 1 < Len(metadata)
                      THEN index' = index + 1 /\ pc' = "paint"
                      ELSE index' = index /\ pc' = "crop"
    /\ UNCHANGED <<cfg, original_images, grayscale_images, metadata, local, files,
                   page, tiles>>

(***************************************************************************)
(* Stitch._crop_stitched_image.                                            *)
(***************************************************************************)
CropStitchedImage ==
    /\ pc = "crop"
    /\ stitched_image' = IF cfg.crop THEN CropRows(metadata, stitched_image)
                         ELSE stitched_image
    /\ pc' = "mark"
    /\ UNCHANGED <<cfg, index, original_images, grayscale_images, metadata, local,
                   files, hist, page, tiles>>

(***************************************************************************)
(* The compositing alone, on every metadata list of the bounded sets: the  *)
(* first page at translation (0, 0), every page unrotated.                 *)
(***************************************************************************)
PageSizes == {<<3, 5>>, <<4, 5>>, <<3, 6>>}

Translations == {<<-1, 0>>, <<1, 0>>, <<2, 0>>, <<1, -2>>, <<1, 1>>}

StitchConfigs ==
    {[BaseConfig EXCEPT !.crop = crop] : crop \in BOOLEAN}

PageMetas(i) ==
    {ScanMetadata(0, t[1], t[2], s[1], s[2]) :
        t \in IF i = 0 THEN {<<0, 0>>} ELSE Translations, s \in PageSizes}

(***************************************************************************)
(* The translations PHASE2 can produce: the large tile lies inside the     *)
(* page it is cut from and inside the page it is found in, so a page       *)
(* starts at most width - margin - tile_width right of its predecessor,    *)
(* and the match is at most vertical_offset_max above or below the tile.   *)
(***************************************************************************)
Producible(config, meta) ==
    \A k \in 2 .. Len(meta) :
        /\ meta[k].translate_x <= meta[k - 1].width - config.margin - config.tile_width
        /\ Abs(meta[k].translate_y) <= config.vertical_offset_max

MetadataLists(config, n) ==
    {m \in [1 .. n -> PageMetas(0) \cup PageMetas(1)] :
        m[1] \in PageMetas(0) /\ Producible(config, m)}

InitStitch ==
    /\ \E n \in 1 .. MaxCanvasPages :
          /\ cfg \in {[c EXCEPT !.paths = n] : c \in StitchConfigs}
          /\ metadata \in MetadataLists(cfg, n)
          /\ original_images = [k \in 1 .. n |->
                                   [width |-> metadata[k].width,
                                    height |-> metadata[k].height, angle |-> 0]]
    /\ grayscale_images = original_images
    /\ pc = "stitch"
    /\ index = 0
    /\ local = NoLocal
    /\ stitched_image = EmptyImage
    /\ files = NoFiles
    /\ hist = NoHist
    /\ page = None
    /\ tiles = None

NextStitch == StitchAlloc \/ PaintPage \/ CropStitchedImage

SpecStitch == InitStitch /\ [][NextStitch]_vars

(***************************************************************************)
(* C6: the canvas allocated by _stitch_images is the bounding box of the   *)
(* placed pages: its width is the maximum over the pages of cumulative x + *)
(* page width, its height the maximum of cumulative y + page height minus  *)
(* the minimum cumulative y.                                               *)
(***************************************************************************)
RightEdges(meta) == {SumTranslateX(meta, k) + meta[k].width : k \in 1 .. Len(meta)}

BottomEdges(meta) == {SumTranslateY(meta, k) + meta[k].height : k \in 1 .. Len(meta)}

TopEdges(meta) == {SumTranslateY(meta, k) : k \in 1 .. Len(meta)}

SetMax(S) == CHOOSE x \in S : \A y \in S : y <= x

SetMin(S) == CHOOSE x \in S : \A y \in S : x <= y

Allocated == pc = "paint" /\ index = 0

C6_CanvasIsBoundingBox ==
    Allocated =>
        /\ stitched_image.width = SetMax(RightEdges(metadata))
        /\ stitched_image.height = SetMax(BottomEdges(metadata)) - SetMin(TopEdges(metadata))

(***************************************************************************)
(* C7: with cropping the output height is the height of the intersection   *)
(* of the pages' vertical extents, without cropping the height of their    *)
(* union.                                                                  *)
(***************************************************************************)
IntersectionHeight(meta) == Max2(0, SetMin(BottomEdges(meta)) - SetMax(TopEdges(meta)))

UnionHeight(meta) == SetMax(BottomEdges(meta)) - SetMin(TopEdges(meta))

C7_CropHeight ==
    pc = "mark" =>
        stitched_image.height = IF cfg.crop THEN IntersectionHeight(metadata)
                                ELSE UnionHeight(metadata)

(***************************************************************************)
(* C8: merge_data copies none of the source's first overlap_x columns,     *)
(* leaves every destination pixel outside the rectangle                    *)
(* [offset_x + overlap_x, offset_x + source width) x                       *)
(* [offset_y, offset_y + source height) unchanged, and gives each copied   *)
(* destination pixel (x, y) the source pixel (x - offset_x, y - offset_y). *)
(***************************************************************************)
InMergeRectangle(m, c) ==
    /\ c[1] >= m.offset_x + m.overlap_x /\ c[1] < m.offset_x + m.source_width
    /\ c[2] >= m.offset_y /\ c[2] < m.offset_y + m.source_height

JustMerged == hist.merge.called /\ pc \in {"paint", "crop", "error"}

C8_MergeFrame ==
    JustMerged =>
        \A c \in Coords(hist.merge.destination.width, hist.merge.destination.height) :
            /\ ~InMergeRectangle(hist.merge, c) =>
                   stitched_image.px[c] = hist.merge.destination.px[c]
            /\ c \in hist.merge.copied =>
                   /\ c[1] - hist.merge.offset_x >= hist.merge.overlap_x
                   /\ stitched_image.px[c] =
                          <<hist.merge.index,
                            c[1] - hist.merge.offset_x, c[2] - hist.merge.offset_y>>

(***************************************************************************)
(* C4: pages that are full-height windows of one canvas at increasing x    *)
(* (the first at x = 0, the last ending at the right edge), unrotated and  *)
(* matched at their true location, are stitched into exactly the canvas:   *)
(* same width and height, every pixel the canvas pixel at its coordinates. *)
(* Page k is the window at x = cumulative translate_x, so its pixel        *)
(* (sx, sy) is the canvas pixel (cumulative x + sx, sy).                   *)
(***************************************************************************)
IsWindows(config, meta) ==
    /\ \A k \in 1 .. Len(meta) :
          /\ meta[k].rotate = 0
          /\ meta[k].translate_y = 0
          /\ meta[k].height = meta[1].height
          /\ SumTranslateX(meta, k) + meta[k].width <= TotalWidth(meta)
    /\ \A k \in 2 .. Len(meta) :
          /\ meta[k].translate_x > 0
          /\ meta[k].translate_x + config.margin + config.tile_width <= meta[k - 1].width

CanvasPixel(meta, p) == <<SumTranslateX(meta, p[1] + 1) + p[2], p[3]>>

C4_WindowsReproduceCanvas ==
    IsWindows(cfg, metadata) =>
        /\ pc # "error"
        /\ pc \in {"crop", "mark"} =>
              /\ stitched_image.width = SetMax(RightEdges(metadata))
              /\ stitched_image.height = metadata[1].height
              /\ \A c \in Coords(stitched_image.width, stitched_image.height) :
                    /\ stitched_image.px[c] # White
                    /\ CanvasPixel(metadata, stitched_image.px[c]) = c

C4_Witness ==
    /\ IsWindows(cfg, metadata)
    /\ Len(metadata) = 3
    /\ metadata[2].width # metadata[3].width
    /\ pc = "mark"

(***************************************************************************)
(* TileExtractor.  A page is its size and, for every row j, the standard   *)
(* deviation part.std() of the patch data[j:j+tile_height,                 *)
(* margin:margin+tile_width] the automatic search looks at.  A contrast is *)
(* a rational <<numerator, denominator>> with a positive denominator.      *)
(***************************************************************************)
Greater(a, b) == a[1] * b[2] > b[1] * a[2]

Tile(x, y, contrast, image_width, image_height) ==
    [x |-> x, y |-> y, contrast |-> contrast,
     image_width |-> image_width, image_height |-> image_height]

(***************************************************************************)
(* TileExtractor._extract_tile_top: rows margin .. height // 2 - 1 in      *)
(* increasing order; the contrast of a row beyond                          *)
(* fraction = int(height * tile_fraction) is weighted by                   *)
(* (j - fraction) / (fraction - stop); the first row of the strictly       *)
(* largest weighted contrast wins, row 0 if no contrast exceeds 0.0.       *)
(***************************************************************************)
TopFraction(config, p) == (p.height * config.tile_fraction[1]) \div config.tile_fraction[2]

TopContrast(config, p, j) ==
    IF j <= TopFraction(config, p)
    THEN <<p.contrast[j], 1>>
    ELSE <<-(p.contrast[j] * (j - TopFraction(config, p))),
           (p.height \div 2) - TopFraction(config, p)>>

RECURSIVE TopScan(_, _, _, _)
TopScan(config, p, j, best) ==
    IF j >= p.height \div 2 THEN best
    ELSE TopScan(config, p, j + 1,
                 IF Greater(TopContrast(config, p, j), best.contrast_max)
                 THEN [contrast_max |-> TopContrast(config, p, j), j_max |-> j]
                 ELSE best)

ExtractTileTop(config, p) ==
    LET best == TopScan(config, p, config.margin, [contrast_max |-> <<0, 1>>, j_max |-> 0])
    IN  Tile(config.margin, best.j_max, best.contrast_max,
             NSlice(config.margin, config.margin + config.tile_width, p.width).len,
             NSlice(best.j_max, best.j_max + config.tile_height, p.height).len)

(***************************************************************************)
(* TileExtractor._extract_tile_bottom: rows                                *)
(* height - 1 - margin - tile_height down to fraction + 1 with             *)
(* fraction = height - int(height * tile_fraction), weight 1.0.            *)
(***************************************************************************)
BottomFraction(config, p) == p.height - TopFraction(config, p)

RECURSIVE BottomScan(_, _, _, _)
BottomScan(config, p, j, best) ==
    IF j <= BottomFraction(config, p) THEN best
    ELSE BottomScan(config, p, j - 1,
                    IF Greater(<<p.contrast[j], 1>>, best.contrast_max)
                    THEN [contrast_max |-> <<p.contrast[j], 1>>, j_max |-> j]
                    ELSE best)

ExtractTileBottom(config, p) ==
    LET best == BottomScan(config, p, p.height - 1 - config.margin - config.tile_height,
                           [contrast_max |-> <<0, 1>>, j_max |-> 0])
    IN  Tile(config.margin, best.j_max, best.contrast_max,
             NSlice(config.margin, config.margin + config.tile_width, p.width).len,
             NSlice(best.j_max, best.j_max + config.tile_height, p.height).len)

(***************************************************************************)
(* TileExtractor._extract_tile_manual_top / _extract_tile_manual_bottom:   *)
(* the rectangle from the hint to hint + (tile_width, tile_height),        *)
(* clipped to the page, both corners included.                             *)
(***************************************************************************)
ExtractTileManual(config, p, hint) ==
    LET x_lt == Max2(0, hint[1])
        y_lt == Max2(0, hint[2])
        x_rb == Min2(p.width - 1, hint[1] + config.tile_width)
        y_rb == Min2(p.height - 1, hint[2] + config.tile_height)
    IN  Tile(x_lt, y_lt, <<p.contrast[Min2(y_lt, p.height - 1)], 1>>,
             NSlice(x_lt, x_rb + 1, p.width).len, NSlice(y_lt, y_rb + 1, p.height).len)

(***************************************************************************)
(* TileExtractor.extract_tiles: automatic without a hint, manual with one. *)
(***************************************************************************)
ExtractTilesAuto ==
    /\ pc = "extract"
    /\ cfg.tile_hint = NoHint
    /\ tiles' = <<ExtractTileTop(cfg, page), ExtractTileBottom(cfg, page)>>
    /\ pc' = "extracted"
    /\ UNCHANGED <<cfg, index, original_images, grayscale_images, metadata, local,
                   stitched_image, files, hist, page>>

ExtractTilesManual ==
    /\ pc = "extract"
    /\ cfg.tile_hint # NoHint
    /\ tiles' = <<ExtractTileManual(cfg, page, cfg.tile_hint[1]),
                  ExtractTileManual(cfg, page, cfg.tile_hint[2])>>
    /\ pc' = "extracted"
    /\ UNCHANGED <<cfg, index, original_images, grayscale_images, metadata, local,
                   stitched_image, files, hist, page>>

(***************************************************************************)
(* The TileExtractor alone, on every page and configuration of the         *)
(* bounded sets.                                                           *)
(***************************************************************************)
MaxContrast == 1

ExtractHeights == {9, 10}

HintPoints == {<<0, 1>>, <<1, 1>>, <<1, 6>>, <<3, 9>>}

TileHints == {NoHint} \cup {<<a, b>> : a \in HintPoints, b \in HintPoints}

ExtractConfigs ==
    {[BaseConfig EXCEPT !.margin = m, !.tile_height = 1, !.tile_fraction = f,
                        !.tile_hint = h] :
        m \in {0, 1}, f \in {<<3, 10>>, <<1, 2>>}, h \in TileHints}

(***************************************************************************)
(* The manual mode does not look at the contrast to place a tile: its      *)
(* pages are the evenly textured ones.                                     *)
(***************************************************************************)
ExtractPages(config) ==
    UNION {{[width |-> 4, height |-> h, contrast |-> c] :
               c \in IF config.tile_hint = NoHint
                     THEN [0 .. h - 1 -> 0 .. MaxContrast]
                     ELSE {[j \in 0 .. h - 1 |-> v] : v \in 0 .. MaxContrast}} :
           h \in ExtractHeights}

InitExtract ==
    /\ cfg \in ExtractConfigs
    /\ page \in ExtractPages(cfg)
    /\ tiles = None
    /\ pc = "extract"
    /\ index = 0
    /\ original_images = <<>>
    /\ grayscale_images = <<>>
    /\ metadata = <<>>
    /\ local = NoLocal
    /\ stitched_image = EmptyImage
    /\ files = NoFiles
    /\ hist = NoHist

NextExtract == ExtractTilesAuto \/ ExtractTilesManual

SpecExtract == InitExtract /\ [][NextExtract]_vars

(***************************************************************************)
(* C9: the origins of the two tiles extract_tiles returns are at least     *)
(* sqrt(tile_width^2 + tile_height^2) apart.                               *)
(***************************************************************************)
C9_TilesApart ==
    pc = "extracted" =>
        Square(tiles[1].x - tiles[2].x) + Square(tiles[1].y - tiles[2].y)
            >= Square(cfg.tile_width) + Square(cfg.tile_height)

(***************************************************************************)
(* C10: the first tile extract_tiles returns is the vertically earlier     *)
(* one, top.y <= bottom.y.                                                 *)
(***************************************************************************)
C10_TilesOrdered ==
    pc = "extracted" => tiles[1].y <= tiles[2].y

(***************************************************************************)
(* C11: in automatic mode extract_tiles returns no tiles (it fails) for a  *)
(* page on which no patch has any contrast, and tiles it does return are   *)
(* textured and at least the tile diagonal apart.                          *)
(***************************************************************************)
Textured(tile) == Greater(tile.contrast, <<0, 1>>)

C11_ExhaustedSearchFails ==
    (pc = "extracted" /\ cfg.tile_hint = NoHint) =>
        /\ \E j \in 0 .. page.height - 1 : page.contrast[j] > 0
        /\ Textured(tiles[1]) /\ Textured(tiles[2])
        /\ Square(tiles[1].x - tiles[2].x) + Square(tiles[1].y - tiles[2].y)
              >= Square(cfg.tile_width) + Square(cfg.tile_height)

(***************************************************************************)
(* The run of Stitch.stitch.                                               *)
(*                                                                         *)
(* Image.sub_image(x, y, width, height): the numpy slice                   *)
(* data[y:y+height, x:x+width]; only the size matters to the alignment.    *)
(***************************************************************************)
SubImage(image, x, y, width, height) ==
    [width |-> NSlice(x, x + width, image.width).len,
     height |-> NSlice(y, y + height, image.height).len]

(***************************************************************************)
(* Image.match_template(needle): the best location of the needle inside    *)
(* the image and its score.  cv2.matchTemplate raises when the needle is   *)
(* empty or larger than the image; otherwise every location at which the   *)
(* needle fits can be the best one, with a score on either side of         *)
(* tile_match_min.                                                         *)
(***************************************************************************)
MatchScores == {0, 1}

MatchTemplate(image, needle) ==
    IF needle.width < 1 \/ needle.height < 1
       \/ needle.width > image.width \/ needle.height > image.height
    THEN {}
    ELSE {[x |-> x, y |-> y, match |-> score] :
             x \in 0 .. image.width - needle.width,
             y \in 0 .. image.height - needle.height,
             score \in MatchScores}

(***************************************************************************)
(* TileFinder.find_tile: the tiles it can return; the empty set when       *)
(* match_template raises.  A vertical band of 0 stands for None as well    *)
(* (x_start = vertical_band_x or 0, width = vertical_band_width or the     *)
(* page width).  ImageBand is the band searched with its origin, FoundTile *)
(* the Tile built from a match (lines 70-75).                              *)
(***************************************************************************)
ImageBand(config, image, vertical_band_x, vertical_band_width, tile) ==
    LET y_start == Max2(tile.y - config.vertical_offset_max, 0)
        y_stop == Min2(tile.y + tile.height + config.vertical_offset_max, image.height)
        x_start == vertical_band_x
        width == IF vertical_band_width = 0 THEN image.width ELSE vertical_band_width
    IN  [x_start |-> x_start, y_start |-> y_start,
         image |-> SubImage(image, x_start, y_start, width, y_stop - y_start)]

FoundTile(image, tile, x, y, match) ==
    LET image_tile == SubImage(image, x, y, tile.width, tile.height)
    IN  MatchedTile(x, y, match, image_tile.width, image_tile.height)

FindTile(config, image, vertical_band_x, vertical_band_width, tile) ==
    UNION {{FoundTile(image, tile, m.x + band.x_start, m.y + band.y_start, m.match) :
               m \in MatchTemplate(band.image, tile)} :
           band \in {ImageBand(config, image, vertical_band_x, vertical_band_width,
                               tile)}}

(***************************************************************************)
(* TileExtractor(io, config, path, side, image, tile_hints).extract_tiles  *)
(* as Stitch calls it.  With hints the tiles are cut at the hinted         *)
(* centers, clipped to the page.  Without hints the search either is       *)
(* exhausted (StitchError, the empty sequence here) or yields a top and a  *)
(* bottom tile on the side asked for, at least the tile diagonal apart.    *)
(***************************************************************************)
HintedTile(config, image, hint) ==
    LET x == Max2(0, hint[1] - config.tile_width \div 2)
        y == Max2(0, hint[2] - config.tile_height \div 2)
        size == SubImage(image, x, y, config.tile_width, config.tile_height)
    IN  MatchedTile(x, y, 0, size.width, size.height)

ExtractTiles(config, side, image, tile_hints) ==
    LET x == IF side = "LEFT" THEN config.margin
             ELSE image.width - config.margin - config.tile_width
        y_top == config.margin
        y_bottom == image.height - config.margin - config.tile_height
        fits == /\ x >= 0 /\ x + config.tile_width <= image.width
                /\ Square(y_bottom - y_top)
                      >= Square(config.tile_width) + Square(config.tile_height)
    IN  IF tile_hints # NoHint
        THEN {<<HintedTile(config, image, tile_hints[1]),
                HintedTile(config, image, tile_hints[2])>>}
        ELSE {<<>>} \cup
             (IF fits
              THEN {<<MatchedTile(x, y_top, 0, config.tile_width, config.tile_height),
                      MatchedTile(x, y_bottom, 0, config.tile_width, config.tile_height)>>}
              ELSE {})

(***************************************************************************)
(* math.atan2(y, x) in the angular unit of the model (4 units to the       *)
(* radian, a quarter turn is 6): the tangent is taken linear inside each   *)
(* quadrant around the axes.                                               *)
(***************************************************************************)
Trunc(a, b) == IF a >= 0 THEN a \div b ELSE -((-a) \div b)

Atan2(y, x) ==
    IF x = 0 /\ y = 0 THEN 0
    ELSE IF Abs(x) <= Abs(y)
         THEN IF y > 0 THEN 6 - Trunc(4 * x, y) ELSE -6 + Trunc(4 * x, -y)
         ELSE IF x > 0 THEN Trunc(4 * y, x)
              ELSE IF y >= 0 THEN 12 - Trunc(4 * y, -x) ELSE -12 - Trunc(4 * y, -x)

(***************************************************************************)
(* Stitch._pre_stitch_image_phase1_helper, lines 245-247: the angle        *)
(* between the vector of the matched tiles and the vector of the           *)
(* extracted tiles, times sign.                                            *)
(***************************************************************************)
AngleDelta(sign, tile_top, tile_bottom, tile_top_match, tile_bottom_match) ==
    sign * (Atan2(tile_bottom_match.y - tile_top_match.y,
                  tile_bottom_match.x - tile_top_match.x)
            - Atan2(tile_bottom.y - tile_top.y, tile_bottom.x - tile_top.x))

(***************************************************************************)
(* Bounds of the run: the number of scanned pages and the number of        *)
(* evaluations of fun a PHASE2 minimize makes.                             *)
(***************************************************************************)
MaxPages == 2

MaxEvals == 2

(***************************************************************************)
(* The sizes of the scanned pages: the first page is one of two heights,   *)
(* the later pages are of the larger one.                                  *)
(***************************************************************************)
RunPageSizes(i) == IF i = 0 THEN {<<3, 7>>, <<3, 5>>} ELSE {<<3, 7>>}

(***************************************************************************)
(* self._config.tile_hints.get(self._paths[index].name): the tile_hints    *)
(* of the model have an entry for the second page at most.                 *)
(***************************************************************************)
PageHints(config, i) == IF i = 1 THEN config.tile_hint ELSE NoHint

(***************************************************************************)
(* Stitch._pre_stitch_image_phase1: the arguments of the forward call      *)
(* (lines 164-169) and of the reverse call (lines 172-177) of the helper,  *)
(* with its locals as set at lines 200-203.                                *)
(***************************************************************************)
ForwardLocals(config, i) ==
    [NoLocal EXCEPT !.side = "LEFT", !.sign = 1, !.index_extract = i,
                    !.index_matched = i - 1, !.hints = PageHints(config, i)]

ReverseLocalsWithHints(config, i) ==
    [NoLocal EXCEPT !.side = "RIGHT", !.sign = -1, !.index_extract = i - 1,
                    !.index_matched = i, !.hints = PageHints(config, i)]

ReverseLocals(config, i) ==
    [NoLocal EXCEPT !.side = "RIGHT", !.sign = -1, !.index_extract = i - 1,
                    !.index_matched = i, !.hints = NoHint]

(***************************************************************************)
(* Stitch._pre_stitch_images, lines 108-118: Image.read of the next page   *)
(* (an AssertionError if the file cannot be decoded), the two appends, and *)
(* for a page after the first the entry into the forward PHASE1 helper.    *)
(***************************************************************************)
ReadPage ==
    /\ pc = "read"
    /\ \E s \in RunPageSizes(index) :
          LET image == [width |-> s[1], height |-> s[2], angle |-> 0]
          IN  /\ original_images' = Append(original_images, image)
              /\ grayscale_images' = Append(grayscale_images, image)
    /\ IF index = 0
       THEN /\ pc' = "page0"
            /\ local' = NoLocal
            /\ hist' = hist
       ELSE /\ pc' = "phase1"
            /\ local' = ForwardLocals(cfg, index)
            /\ hist' = [hist EXCEPT !.attempts = [forward |-> 1, reverse |-> 0]]
    /\ UNCHANGED <<cfg, index, metadata, stitched_image, files, page, tiles>>

ReadFails ==
    /\ pc = "read"
    /\ pc' = "error"
    /\ hist' = [hist EXCEPT !.error = "unreadable"]
    /\ UNCHANGED <<cfg, index, original_images, grayscale_images, metadata, local,
                   stitched_image, files, page, tiles>>

(***************************************************************************)
(* Stitch._pre_stitch_images, line 120 and the loop head: the metadata of  *)
(* the page is appended and the loop goes to the next page, or is left.    *)
(***************************************************************************)
Appended(meta) ==
    /\ metadata' = Append(metadata, meta)
    /\ index' = index + 1
    /\ pc' = IF index + 1 < cfg.paths THEN "read" ELSE "log"

(***************************************************************************)
(* OrientationDetector.detect_orientation: None, or the average of angles  *)
(* that are each smaller in magnitude than rotation_max.  The page dump of *)
(* _debug_save_page_hough_lines is written on every call.                  *)
(***************************************************************************)
DetectedAngles(config) ==
    {a \in -config.rotation_max .. config.rotation_max : Abs(a) < config.rotation_max}

(***************************************************************************)
(* Stitch._pre_stitch_image0: the locals are the result of the detector    *)
(* (detected is FALSE for None, and angle is then not read).               *)
(***************************************************************************)
Page0IgnoredAlways(config, detected, angle) == TRUE

Page0Ignored(config, detected, angle) == ~detected \/ Abs(angle) > config.rotation_max

PreStitchImage0 ==
    /\ pc = "page0"
    /\ \E detected \in BOOLEAN, angle \in DetectedAngles(cfg) :
          LET ignored == Page0Ignored(cfg, detected, angle)
              gray == IF ignored THEN grayscale_images
                      ELSE [grayscale_images EXCEPT ![1] = Rotate(original_images[1], angle)]
          IN  /\ detected \/ angle = 0
              /\ local' = [NoLocal EXCEPT !.detected = detected, !.angle = angle]
              /\ grayscale_images' = gray
              /\ Appended(ScanMetadata(IF ignored THEN 0 ELSE angle, 0, 0,
                                       gray[1].width, gray[1].height))
    /\ files' = [files EXCEPT !.tmp = @ + 1]
    /\ UNCHANGED <<cfg, original_images, stitched_image, hist, page, tiles>>

(***************************************************************************)
(* Stitch._pre_stitch_image_phase1_helper: one round of the loop of lines  *)
(* 204-250.  The round rotates page index by angle - angle_delta, extracts *)
(* the tiles from page index_extract and finds them in page index_matched. *)
(* tile_top and tile_top_match are read again only when the helper         *)
(* returns, so between two rounds the locals kept are iteration, angle     *)
(* and angle_delta.                                                        *)
(***************************************************************************)
IndexExtract == local.index_extract

IndexMatched == local.index_matched

(***************************************************************************)
(* The loop head, for iteration in range(tile_iterations_max).             *)
(***************************************************************************)
RoundsLeftOneMore(config, iteration) == iteration <= config.tile_iterations_max

RoundsLeft(config, iteration) == iteration < config.tile_iterations_max

Direction == IF local.side = "LEFT" THEN "forward" ELSE "reverse"

InRound == pc = "phase1" /\ RoundsLeft(cfg, local.iteration)

Phase1AngleKept == local.angle

Phase1Angle == local.angle - local.angle_delta

Phase1Exceeds == Phase1Angle > cfg.rotation_max

Phase1RotatedExtract ==
    [grayscale_images EXCEPT ![local.index_extract + 1] =
        Rotate(original_images[local.index_extract + 1], Phase1Angle)]

Phase1Rotated ==
    [grayscale_images EXCEPT ![index + 1] = Rotate(original_images[index + 1], Phase1Angle)]

Phase1Tiles(rotated) ==
    ExtractTiles(cfg, local.side, rotated[IndexExtract + 1], local.hints)

Phase1Find(rotated, tile) == FindTile(cfg, rotated[IndexMatched + 1], 0, 0, tile)

Phase1Dumps == IF cfg.debug THEN 2 ELSE 0

Counted == [hist EXCEPT !.rounds[Direction] = @ + 1, !.matches = <<>>]

Scored(tile_top_match, tile_bottom_match) ==
    [Counted EXCEPT !.matches = <<tile_top_match.match, tile_bottom_match.match>>]

(***************************************************************************)
(* Lines 238-243: the round raises StitchError when a match score is below *)
(* tile_match_min.                                                         *)
(***************************************************************************)
MatchBelowTopOnly(tile_top_match, tile_bottom_match) ==
    tile_top_match.match < cfg.tile_match_min

MatchBelow(tile_top_match, tile_bottom_match) ==
    \/ tile_top_match.match < cfg.tile_match_min
    \/ tile_bottom_match.match < cfg.tile_match_min

(***************************************************************************)
(* Lines 249-250 and the loop head: the loop is left when the measured     *)
(* angle_delta has no effect on the page, or after tile_iterations_max     *)
(* rounds.                                                                 *)
(***************************************************************************)
Phase1Stops(angle_delta) ==
    \/ ~RotationHasEffect(original_images[index + 1].width,
                          original_images[index + 1].height, angle_delta)
    \/ ~RoundsLeft(cfg, local.iteration + 1)

(***************************************************************************)
(* Stitch._pre_stitch_image_phase1, lines 163-177: a StitchError of the    *)
(* forward helper is caught and the reverse helper is called; a StitchError*)
(* of the reverse helper leaves the run.                                   *)
(***************************************************************************)
Phase1Fails(error, h) ==
    IF local.side = "LEFT"
    THEN /\ pc' = "phase1"
         /\ local' = ReverseLocals(cfg, index)
         /\ hist' = [h EXCEPT !.forward_failed = TRUE, !.attempts.reverse = @ + 1]
    ELSE /\ pc' = "error"
         /\ local' = local
         /\ hist' = [h EXCEPT !.error = error]

(***************************************************************************)
(* Lines 209-211: the accumulated angle exceeds rotation_max.              *)
(***************************************************************************)
Phase1RotationExceeded ==
    /\ InRound
    /\ Phase1Exceeds
    /\ Phase1Fails("rotation", Counted)
    /\ UNCHANGED <<cfg, index, original_images, grayscale_images, metadata,
                   stitched_image, files, page, tiles>>

(***************************************************************************)
(* Line 221: extract_tiles raises StitchError.                             *)
(***************************************************************************)
Phase1ExtractFails ==
    /\ InRound
    /\ ~Phase1Exceeds
    /\ \E rotated \in {Phase1Rotated} :
          /\ <<>> \in Phase1Tiles(rotated)
          /\ grayscale_images' = rotated
    /\ Phase1Fails("phase1", Counted)
    /\ UNCHANGED <<cfg, index, original_images, metadata, stitched_image, files,
                   page, tiles>>

(***************************************************************************)
(* Lines 224-225: find_tile raises (the error of cv2.matchTemplate, which  *)
(* is not a StitchError and leaves the run in either direction).           *)
(***************************************************************************)
Phase1FindFails ==
    /\ InRound
    /\ ~Phase1Exceeds
    /\ pc' = "error"
    /\ hist' = [Counted EXCEPT !.error = "cv2.error"]
    /\ \E rotated \in {Phase1Rotated} :
          /\ {t \in Phase1Tiles(rotated) \ {<<>>} :
                  Phase1Find(rotated, t[1]) = {} \/ Phase1Find(rotated, t[2]) = {}} # {}
          /\ grayscale_images' = rotated
    /\ UNCHANGED <<cfg, index, original_images, metadata, local, stitched_image,
                   files, page, tiles>>

(***************************************************************************)
(* Lines 227-243: a match score is below tile_match_min.                   *)
(***************************************************************************)
Phase1MatchBelow ==
    /\ InRound
    /\ ~Phase1Exceeds
    /\ pc' \in {"phase1", "error"}
    /\ \E rotated \in {Phase1Rotated} :
          /\ \E t \in Phase1Tiles(rotated) \ {<<>>} :
                \E tile_top_match \in Phase1Find(rotated, t[1]),
                   tile_bottom_match \in Phase1Find(rotated, t[2]) :
                    /\ MatchBelow(tile_top_match, tile_bottom_match)
                    /\ Phase1Fails("phase1", Scored(tile_top_match, tile_bottom_match))
          /\ grayscale_images' = rotated
    /\ files' = [files EXCEPT !.tmp = @ + Phase1Dumps]
    /\ UNCHANGED <<cfg, index, original_images, metadata, stitched_image, page, tiles>>

(***************************************************************************)
(* Lines 205-250: a round after which the loop goes on.                    *)
(***************************************************************************)
Phase1Round ==
    /\ InRound
    /\ ~Phase1Exceeds
    /\ pc' = "phase1"
    /\ \E rotated \in {Phase1Rotated} :
          /\ \E t \in Phase1Tiles(rotated) \ {<<>>} :
                \E tile_top_match \in Phase1Find(rotated, t[1]),
                   tile_bottom_match \in Phase1Find(rotated, t[2]) :
                    \E angle_delta \in {AngleDelta(local.sign, t[1], t[2],
                                                   tile_top_match, tile_bottom_match)} :
                        /\ ~MatchBelow(tile_top_match, tile_bottom_match)
                        /\ hist' = Scored(tile_top_match, tile_bottom_match)
                        /\ ~Phase1Stops(angle_delta)
                        /\ local' = [local EXCEPT !.iteration = @ + 1,
                                                  !.angle = Phase1Angle,
                                                  !.angle_delta = angle_delta]
          /\ grayscale_images' = rotated
    /\ files' = [files EXCEPT !.tmp = @ + Phase1Dumps]
    /\ UNCHANGED <<cfg, index, original_images, metadata, stitched_image, page, tiles>>

(***************************************************************************)
(* Lines 205-257: the last round of the loop and the return of the         *)
(* ScanMetadata of PHASE1.                                                 *)
(***************************************************************************)
Phase1Meta(sign, angle, tile_top, tile_top_match, image) ==
    ScanMetadata(angle, sign * (tile_top_match.x - tile_top.x),
                 sign * (tile_top_match.y - tile_top.y), image.width, image.height)

Phase1Return ==
    /\ InRound
    /\ ~Phase1Exceeds
    /\ pc' = "phase2"
    /\ \E rotated \in {Phase1Rotated} :
          /\ \E t \in Phase1Tiles(rotated) \ {<<>>} :
                \E tile_top_match \in Phase1Find(rotated, t[1]),
                   tile_bottom_match \in Phase1Find(rotated, t[2]) :
                    \E angle_delta \in {AngleDelta(local.sign, t[1], t[2],
                                                   tile_top_match, tile_bottom_match)} :
                        /\ ~MatchBelow(tile_top_match, tile_bottom_match)
                        /\ hist' = Scored(tile_top_match, tile_bottom_match)
                        /\ Phase1Stops(angle_delta)
                        /\ local' = [local EXCEPT !.iteration = @ + 1,
                                                  !.angle = Phase1Angle,
                                                  !.angle_delta = angle_delta,
                                                  !.tile_extract = t[1],
                                                  !.tile_match = tile_top_match,
                                                  !.meta = Phase1Meta(local.sign, Phase1Angle,
                                                                      t[1], tile_top_match,
                                                                      rotated[index + 1])]
          /\ grayscale_images' = rotated
    /\ files' = [files EXCEPT !.tmp = @ + Phase1Dumps]
    /\ UNCHANGED <<cfg, index, original_images, metadata, stitched_image, page, tiles>>

(***************************************************************************)
(* Lines 204 and 252-259 with tile_iterations_max = 0: the loop body never *)
(* runs, tile_top is None and the helper raises StitchError.               *)
(***************************************************************************)
Phase1NoRound ==
    /\ pc = "phase1"
    /\ cfg.tile_iterations_max <= 0
    /\ Phase1Fails("phase1", hist)
    /\ UNCHANGED <<cfg, index, original_images, grayscale_images, metadata,
                   stitched_image, files, page, tiles>>

(***************************************************************************)
(* Stitch._pre_stitch_image_phase2 and lines 306-317 of its helper: the    *)
(* direction of PHASE2 is the side PHASE1 returned; the vertical band is   *)
(* computed from the translate_x of PHASE1 and the minimisation starts at  *)
(* its rotation.  PHASE1 is over: the history of its attempts and rounds   *)
(* is reset for the next page.                                             *)
(***************************************************************************)
VerticalBandX(config, sign, meta, width_extract) ==
    IF sign = 1
    THEN Max2(0, meta.translate_x - config.vertical_offset_max - config.margin)
    ELSE Max2(0, width_extract - config.margin - config.tile_width
                 - config.vertical_offset_max - meta.translate_x)

VerticalBandWidth(config) == config.tile_width + 2 * config.vertical_offset_max

Phase2SignForward(side) == 1

Phase2Sign(side) == IF side = "LEFT" THEN 1 ELSE -1

Phase2Enter ==
    /\ pc = "phase2"
    /\ LET sign == Phase2Sign(local.side)
           index_extract == IF local.side = "LEFT" THEN index ELSE index - 1
           index_matched == IF local.side = "LEFT" THEN index - 1 ELSE index
       IN  local' = [NoLocal EXCEPT
                        !.side = local.side, !.sign = sign,
                        !.index_extract = index_extract, !.index_matched = index_matched,
                        !.vertical_band_x =
                            VerticalBandX(cfg, sign, local.meta,
                                          grayscale_images[index_extract + 1].width),
                        !.vertical_band_width = VerticalBandWidth(cfg),
                        !.x0 = local.meta.rotate]
    /\ hist' = [hist EXCEPT !.attempts = NoAttempts, !.rounds = NoAttempts,
                            !.matches = <<>>, !.forward_failed = FALSE]
    /\ pc' = "minimize"
    /\ UNCHANGED <<cfg, index, original_images, grayscale_images, metadata,
                   stitched_image, files, page, tiles>>

(***************************************************************************)
(* Stitch._pre_stitch_image_phase2_helper_helper: the large tile cut from  *)
(* page index_extract and the tiles find_tile can return for it in page    *)
(* index_matched, inside the vertical band.                                *)
(***************************************************************************)
Phase2RotatedKept(x) == grayscale_images

Phase2Rotated(x) ==
    [grayscale_images EXCEPT ![index + 1] = Rotate(original_images[index + 1], x)]

LargeTile(config, sign, image_extract, image_matched) ==
    LET margin == config.margin
        height == Min2(image_extract.height, image_matched.height)
                  - 2 * margin - 2 * config.vertical_offset_max
        x == IF sign = 1 THEN margin
             ELSE image_extract.width - margin - config.tile_width
        image_tile == SubImage(image_extract, x, margin + config.vertical_offset_max,
                               config.tile_width, height)
    IN  MatchedTile(x, margin + config.vertical_offset_max, 0,
                    image_tile.width, image_tile.height)

Phase2Tile(gray) ==
    LargeTile(cfg, local.sign, gray[IndexExtract + 1], gray[IndexMatched + 1])

Phase2Find(gray, tile) ==
    FindTile(cfg, gray[IndexMatched + 1], local.vertical_band_x,
             local.vertical_band_width, tile)

(***************************************************************************)
(* scipy minimize(fun, [meta.rotate], method='nelder-mead', bounds=...):   *)
(* the starting point is clipped to the bounds, every point evaluated lies *)
(* inside the bounds, and the result is the best point evaluated.  x0 is   *)
(* read by the first evaluation only.                                      *)
(***************************************************************************)
Unclipped(config, x) == x

Clip(config, x) == Max2(-config.rotation_max, Min2(config.rotation_max, x))

Phase2Points(config) == -config.rotation_max .. config.rotation_max

(***************************************************************************)
(* Lines 294-304: one evaluation of fun by minimize.                       *)
(***************************************************************************)
Phase2Eval ==
    /\ pc = "minimize"
    /\ local.evals < MaxEvals
    /\ pc' = "minimize"
    /\ \E x \in IF local.evals = 0 THEN {Clip(cfg, local.x0)} ELSE Phase2Points(cfg),
          better \in BOOLEAN :
          /\ local' = [local EXCEPT !.evals = @ + 1,
                                    !.best = IF better \/ local.evals = 0 THEN x ELSE @]
          /\ \E gray \in {Phase2Rotated(x)} :
                \E tile \in {Phase2Tile(gray)} :
                    /\ Phase2Find(gray, tile) # {}
                    /\ grayscale_images' = gray
    /\ UNCHANGED <<cfg, index, original_images, metadata, stitched_image, files,
                   hist, page, tiles>>

(***************************************************************************)
(* Lines 295-296 and 329-330: find_tile raises in an evaluation of fun or  *)
(* in the final computation.                                               *)
(***************************************************************************)
Phase2FindFails ==
    /\ pc = "minimize"
    /\ pc' = "error"
    /\ hist' = [hist EXCEPT !.error = "cv2.error"]
    /\ \E x \in Phase2Points(cfg) :
          /\ \/ local.evals < MaxEvals /\ (local.evals = 0 => x = Clip(cfg, local.x0))
             \/ local.evals >= 1 /\ x = local.best
          /\ \E gray \in {Phase2Rotated(x)} :
                \E tile \in {Phase2Tile(gray)} :
                    /\ Phase2Find(gray, tile) = {}
                    /\ grayscale_images' = gray
    /\ UNCHANGED <<cfg, index, original_images, metadata, local, stitched_image,
                   files, page, tiles>>

(***************************************************************************)
(* Lines 327-342 and line 120 of _pre_stitch_images: the page is rotated   *)
(* by the result of minimize, the large tile is matched once more and the  *)
(* ScanMetadata of the page is appended.                                   *)
(***************************************************************************)
Phase2MetaUnsigned(sign, angle, tile_extract, tile_match, image) ==
    ScanMetadata(angle, tile_match.x - tile_extract.x, tile_match.y - tile_extract.y,
                 image.width, image.height)

Phase2Meta(sign, angle, tile_extract, tile_match, image) ==
    ScanMetadata(angle, sign * (tile_match.x - tile_extract.x),
                 sign * (tile_match.y - tile_extract.y), image.width, image.height)

Phase2Dumps == IF cfg.debug THEN 2 ELSE 0

Phase2Final ==
    /\ pc = "minimize"
    /\ local.evals >= 1
    /\ \E gray \in {Phase2Rotated(local.best)} :
          \E tile \in {Phase2Tile(gray)} :
              \E tile_match \in Phase2Find(gray, tile) :
                  /\ grayscale_images' = gray
                  /\ \E meta \in {Phase2Meta(local.sign, local.best, tile, tile_match,
                                              gray[index + 1])} : Appended(meta)
                  /\ local' = [NoLocal EXCEPT !.side = local.side, !.sign = local.sign,
                                              !.index_extract = local.index_extract,
                                              !.index_matched = local.index_matched,
                                              !.tile_extract = tile,
                                              !.tile_match = tile_match]
    /\ files' = [files EXCEPT !.tmp = @ + Phase2Dumps]
    /\ UNCHANGED <<cfg, original_images, stitched_image, hist, page, tiles>>

(***************************************************************************)
(* Stitch.stitch, line 90: _pre_stitch_images has returned, its locals are *)
(* gone, and _log_metadata prints the table of the metadata.               *)
(***************************************************************************)
LogMetadata ==
    /\ pc = "log"
    /\ local' = NoLocal
    /\ pc' = "stitch"
    /\ UNCHANGED <<cfg, index, original_images, grayscale_images, metadata,
                   stitched_image, files, hist, page, tiles>>

(***************************************************************************)
(* Stitch._debug_mark_stitches: in debug mode the two columns at every     *)
(* stitch are blended with the marker colour.                              *)
(***************************************************************************)
Marker == "marker"

MarkedColumns(config, meta) ==
    UNION {{SumTranslateX(meta, k) + OverlapX(config, 1) - 1,
            SumTranslateX(meta, k) + OverlapX(config, 1)} : k \in 2 .. Len(meta)}

DebugMarkStitches ==
    /\ pc = "mark"
    /\ stitched_image' =
          IF cfg.debug
          THEN [stitched_image EXCEPT !.px =
                   [c \in Coords(stitched_image.width, stitched_image.height) |->
                       IF c[1] \in MarkedColumns(cfg, metadata)
                       THEN Marker ELSE stitched_image.px[c]]]
          ELSE stitched_image
    /\ pc' = "ocr"
    /\ UNCHANGED <<cfg, index, original_images, grayscale_images, metadata, local,
                   files, hist, page, tiles>>

(***************************************************************************)
(* Stitch._ocr and Ocr.ocr: only for a PDF output with OCR requested.  Ocr *)
(* writes its working files (ocr.png, the tesseract output, image.pdf) to  *)
(* the temp directory and saves the PDF at output_path as its last step;   *)
(* it fails before that when tesseract produces no output.                 *)
(***************************************************************************)
(***************************************************************************)
(* str(output_path).lower().endswith(suffix) and                           *)
(* re.match(r'.*\.je?pg$', str(output_path), re.IGNORECASE): a path is the  *)
(* sequence of its characters; the pattern is a "j", an optional "e", then *)
(* "pg" at the end of the path.                                            *)
(***************************************************************************)
LowerChar(c) ==
    CASE c = "D" -> "d" [] c = "E" -> "e" [] c = "F" -> "f" [] c = "G" -> "g"
      [] c = "I" -> "i" [] c = "J" -> "j" [] c = "N" -> "n" [] c = "O" -> "o"
      [] c = "P" -> "p" [] c = "T" -> "t" [] c = "U" -> "u"
      [] OTHER -> c

Lower(path) == [i \in 1 .. Len(path) |-> LowerChar(path[i])]

EndsWith(path, suffix) ==
    /\ Len(path) >= Len(suffix)
    /\ SubSeq(path, Len(path) - Len(suffix) + 1, Len(path)) = suffix

MatchesJpegPattern(path) ==
    \/ EndsWith(Lower(path), <<".", "j", "p", "g">>)
    \/ EndsWith(Lower(path), <<".", "j", "e", "p", "g">>)

OcrRunsForAnyOutput(config) == config.ocr

OcrRuns(config) == config.ocr /\ EndsWith(Lower(config.output_path), <<".", "p", "d", "f">>)

SavedByOcrNever(config) == FALSE

SavedByOcr(config) == EndsWith(Lower(config.output_path), <<".", "p", "d", "f">>) /\ config.ocr

Ocr ==
    /\ pc = "ocr"
    /\ files' = IF OcrRuns(cfg)
                THEN [files EXCEPT !.work = @ + 3, !.output = @ + 1]
                ELSE files
    /\ pc' = "save"
    /\ UNCHANGED <<cfg, index, original_images, grayscale_images, metadata, local,
                   stitched_image, hist, page, tiles>>

OcrFails ==
    /\ pc = "ocr"
    /\ OcrRuns(cfg)
    /\ files' = [files EXCEPT !.work = @ + 1]
    /\ pc' = "error"
    /\ hist' = [hist EXCEPT !.error = "tesseract"]
    /\ UNCHANGED <<cfg, index, original_images, grayscale_images, metadata, local,
                   stitched_image, page, tiles>>

(***************************************************************************)
(* Stitch._save_stitched_image: nothing to do after Ocr saved the PDF;     *)
(* else the encoder is chosen by the extension of output_path, and an      *)
(* extension without encoder raises StitchError.  The PDF encoder writes   *)
(* the image to the temp directory, opens output_path and converts;        *)
(* img2pdf.convert raises when the colour profile file is missing          *)
(* (_extract_icc_profile returns a path it did not write).                 *)
(***************************************************************************)
Encoder(config) ==
    IF EndsWith(Lower(config.output_path), <<".", "p", "n", "g">>) THEN "png"
    ELSE IF MatchesJpegPattern(config.output_path) THEN "jpeg"
    ELSE IF EndsWith(Lower(config.output_path), <<".", "p", "d", "f">>) THEN "pdf"
    ELSE "none"

SaveStitchedImage ==
    /\ pc = "save"
    /\ IF SavedByOcr(cfg)
       THEN /\ files' = files
            /\ pc' = "done"
            /\ hist' = hist
       ELSE IF Encoder(cfg) \in {"png", "jpeg"}
       THEN /\ files' = [files EXCEPT !.output = @ + 1]
            /\ pc' = "done"
            /\ hist' = hist
       ELSE IF Encoder(cfg) = "pdf"
       THEN /\ files' = [files EXCEPT !.work = @ + 1, !.output = @ + 1]
            /\ \E converted \in BOOLEAN :
                  /\ pc' = IF converted THEN "done" ELSE "error"
                  /\ hist' = [hist EXCEPT !.error = IF converted THEN "" ELSE "img2pdf"]
       ELSE /\ files' = files
            /\ pc' = "error"
            /\ hist' = [hist EXCEPT !.error = "extension"]
    /\ UNCHANGED <<cfg, index, original_images, grayscale_images, metadata, local,
                   stitched_image, page, tiles>>

(***************************************************************************)
(* The run on every configuration and every page list of the bounded sets. *)
(***************************************************************************)
RunConfig ==
    [BaseConfig EXCEPT !.margin = 1, !.vertical_offset_max = 1, !.rotation_max = 3,
                       !.tile_width = 1, !.tile_height = 1]

RunHint == <<<<1, 2>>, <<1, 5>>>>

RunVariants ==
    {RunConfig,
     [RunConfig EXCEPT !.output_path = OutputPath(<<".", "j", "p", "g">>), !.crop = TRUE,
                       !.debug = TRUE, !.tile_hint = RunHint],
     [RunConfig EXCEPT !.output_path = OutputPath(<<".", "p", "d", "f">>)],
     [RunConfig EXCEPT !.output_path = OutputPath(<<".", "p", "d", "f">>), !.ocr = TRUE],
     [RunConfig EXCEPT !.output_path = OutputPath(<<".", "t", "i", "f">>), !.ocr = TRUE,
                       !.tile_iterations_max = 1],
     [RunConfig EXCEPT !.tile_iterations_max = 0]}

RunConfigs == {[c EXCEPT !.paths = n] : c \in RunVariants, n \in 1 .. MaxPages}

Init ==
    /\ cfg \in RunConfigs
    /\ pc = "read"
    /\ index = 0
    /\ original_images = <<>>
    /\ grayscale_images = <<>>
    /\ metadata = <<>>
    /\ local = NoLocal
    /\ stitched_image = EmptyImage
    /\ files = NoFiles
    /\ hist = NoHist
    /\ page = None
    /\ tiles = None

Next ==
    \/ ReadPage \/ ReadFails \/ PreStitchImage0
    \/ Phase1RotationExceeded \/ Phase1ExtractFails \/ Phase1FindFails
    \/ Phase1MatchBelow \/ Phase1Round \/ Phase1Return \/ Phase1NoRound
    \/ Phase2Enter \/ Phase2Eval \/ Phase2FindFails \/ Phase2Final
    \/ LogMetadata \/ StitchAlloc \/ PaintPage \/ CropStitchedImage \/ DebugMarkStitches
    \/ Ocr \/ OcrFails \/ SaveStitchedImage

Spec == Init /\ [][Next]_vars

(***************************************************************************)
(* The run is one sequential program: the interpreter executes its next    *)
(* statement, so a step that can be taken is taken.  Each minimize makes   *)
(* at most MaxEvals evaluations of fun.                                    *)
(***************************************************************************)
FairSpec == Spec /\ WF_vars(Next)

Terminal == pc \in {"done", "error"}

(***************************************************************************)
(* C1: for a page i >= 1, the forward PHASE1 attempt extracts from page i, *)
(* searches in page i - 1 and is given the page's tile hints; if it fails  *)
(* with a StitchError exactly one reverse attempt is made, which extracts  *)
(* from page i - 1, searches in page i and is given no hints; if the       *)
(* reverse attempt fails too the StitchError leaves the run and no further *)
(* attempt is made.                                                        *)
(***************************************************************************)
StitchErrors == {"phase1", "rotation"}

C1_ForwardThenOneReverse ==
    /\ hist.attempts.forward <= 1 /\ hist.attempts.reverse <= 1
    /\ hist.forward_failed <=> hist.attempts.reverse = 1
    /\ (pc = "phase1" /\ ~hist.forward_failed) =>
          /\ hist.attempts.forward = 1
          /\ local.side = "LEFT"
          /\ local.index_extract = index /\ local.index_matched = index - 1
          /\ local.hints = PageHints(cfg, index)
    /\ (pc = "phase1" /\ hist.forward_failed) =>
          /\ hist.attempts.forward = 1
          /\ local.side = "RIGHT"
          /\ local.index_extract = index - 1 /\ local.index_matched = index
          /\ local.hints = NoHint
    /\ (pc = "error" /\ hist.error \in StitchErrors) =>
          /\ hist.forward_failed
          /\ hist.attempts = [forward |-> 1, reverse |-> 1]
          /\ local.side = "RIGHT"

C1_Witness ==
    /\ pc = "error"
    /\ hist.error \in StitchErrors
    /\ hist.attempts = [forward |-> 1, reverse |-> 1]
    /\ cfg.tile_hint # NoHint
    /\ index = 1

(***************************************************************************)
(* C2: a run that ends with an error for an unreadable input, a PHASE1     *)
(* that failed in both directions, an exceeded rotation or an unsupported  *)
(* output extension has not written the file at output_path; the output is *)
(* written only after every page has been aligned and the canvas has been  *)
(* composited, and nothing but the end of the run follows it.              *)
(***************************************************************************)
ListedErrors == {"unreadable", "phase1", "rotation", "extension"}

C2_NoPartialOutput ==
    /\ (pc = "error" /\ hist.error \in ListedErrors) => files.output = 0
    /\ files.output > 0 =>
          /\ Len(metadata) = cfg.paths
          /\ hist.merge.called /\ hist.merge.ok /\ hist.merge.index = cfg.paths - 1
          /\ pc \in {"save", "done", "error"}
          /\ pc = "save" => SavedByOcr(cfg)

C2_Witness ==
    /\ pc = "error"
    /\ hist.error = "extension"
    /\ cfg.ocr
    /\ hist.merge.called
    /\ files.output = 0

(***************************************************************************)
(* C3: PHASE1 makes at most tile_iterations_max rounds in each direction   *)
(* for a page, and the run eventually ends, with the output written or     *)
(* with an error.                                                          *)
(***************************************************************************)
C3_BoundedRoundsAndTermination ==
    /\ [](/\ hist.rounds.forward <= cfg.tile_iterations_max
          /\ hist.rounds.reverse <= cfg.tile_iterations_max)
    /\ <>Terminal

C3_Witness ==
    /\ cfg.tile_iterations_max = 2
    /\ hist.rounds = [forward |-> 2, reverse |-> 2]
    /\ pc = "phase2"

(***************************************************************************)
(* C5: when the forward alignment of page i failed and the reverse one     *)
(* succeeded, the translation of the ScanMetadata of page i, the one       *)
(* PHASE1 returns and the one PHASE2 appends, is the position of the tile  *)
(* in page i - 1 minus the position of its match in page i: the position   *)
(* of page i relative to page i - 1, as in the forward direction, where it *)
(* is the position of the match in page i - 1 minus the position of the    *)
(* tile in page i.                                                         *)
(***************************************************************************)
RelativePosition(meta, in_previous, in_current) ==
    /\ meta.translate_x = in_previous.x - in_current.x
    /\ meta.translate_y = in_previous.y - in_current.y

PageAppended == pc \in {"read", "log"} /\ index >= 2

C5_ReverseTranslation ==
    /\ (pc = "phase2" /\ local.side = "RIGHT") =>
          /\ local.index_extract = index - 1 /\ local.index_matched = index
          /\ RelativePosition(local.meta, local.tile_extract, local.tile_match)
    /\ (pc = "phase2" /\ local.side = "LEFT") =>
          RelativePosition(local.meta, local.tile_match, local.tile_extract)
    /\ (PageAppended /\ local.side = "RIGHT") =>
          /\ local.index_extract = index - 2 /\ local.index_matched = index - 1
          /\ RelativePosition(metadata[index], local.tile_extract, local.tile_match)
    /\ (PageAppended /\ local.side = "LEFT") =>
          RelativePosition(metadata[index], local.tile_match, local.tile_extract)

C5_Witness ==
    /\ PageAppended
    /\ local.side = "RIGHT"
    /\ metadata[index].translate_x = -1
    /\ metadata[index].translate_y = 1

(***************************************************************************)
(* TileFinder.find_tile alone: every tile that lies inside a page of one   *)
(* of the heights, searched in a page of one of the heights, without a     *)
(* vertical band (PHASE1) or inside one (PHASE2).                          *)
(***************************************************************************)
FindPageWidth == 3

FindPageHeights == {5, 7}

FindTileSizes == {1, 2}

FindPages == {[width |-> FindPageWidth, height |-> h, angle |-> 0] : h \in FindPageHeights}

FindTiles ==
    UNION {{MatchedTile(x, y, 0, w, h) :
               x \in 0 .. image.width - w, y \in 0 .. image.height - h} :
           image \in FindPages, w \in FindTileSizes, h \in FindTileSizes}

FindBands(config, image) ==
    {<<0, 0>>} \cup {<<x, VerticalBandWidth(config)>> : x \in 0 .. image.width - 1}

InitFind ==
    /\ cfg = RunConfig
    /\ page \in FindPages
    /\ \E tile \in FindTiles : tiles = <<tile>>
    /\ \E band \in FindBands(cfg, page) :
          local = [NoLocal EXCEPT !.vertical_band_x = band[1],
                                  !.vertical_band_width = band[2]]
    /\ pc = "find"
    /\ index = 0
    /\ original_images = <<>>
    /\ grayscale_images = <<>>
    /\ metadata = <<>>
    /\ stitched_image = EmptyImage
    /\ files = NoFiles
    /\ hist = NoHist

FindTileReturns ==
    /\ pc = "find"
    /\ \E tile \in FindTile(cfg, page, local.vertical_band_x, local.vertical_band_width,
                             tiles[1]) :
          tiles' = <<tiles[1], tile>>
    /\ pc' = "found"
    /\ UNCHANGED <<cfg, index, original_images, grayscale_images, metadata, local,
                   stitched_image, files, hist, page>>

FindTileRaises ==
    /\ pc = "find"
    /\ FindTile(cfg, page, local.vertical_band_x, local.vertical_band_width,
                tiles[1]) = {}
    /\ pc' = "error"
    /\ hist' = [hist EXCEPT !.error = "cv2.error"]
    /\ UNCHANGED <<cfg, index, original_images, grayscale_images, metadata, local,
                   stitched_image, files, page, tiles>>

NextFind == FindTileReturns \/ FindTileRaises

SpecFind == InitFind /\ [][NextFind]_vars

(***************************************************************************)
(* C12: find_tile never fails: the vertical search window                  *)
(* [max(tile.y - vertical_offset_max, 0),                                  *)
(*  min(tile.y + tile height + vertical_offset_max, page height)] is at    *)
(* least as tall as the tile, and the tile returned lies inside the search *)
(* rectangle with the whole matched patch inside the page.                 *)
(***************************************************************************)
FindWindow(config, image, tile) ==
    [y_start |-> Max2(tile.y - config.vertical_offset_max, 0),
     y_stop |-> Min2(tile.y + tile.height + config.vertical_offset_max, image.height)]

FindArea(config, image, vertical_band_x, vertical_band_width, tile) ==
    [x_start |-> vertical_band_x,
     x_stop |-> vertical_band_x
                + (IF vertical_band_width = 0 THEN image.width ELSE vertical_band_width),
     y_start |-> FindWindow(config, image, tile).y_start,
     y_stop |-> FindWindow(config, image, tile).y_stop]

C12_FindTileNeverFails ==
    /\ hist.error # "cv2.error"
    /\ pc \in {"found", "error"} =>
          FindWindow(cfg, page, tiles[1]).y_stop - FindWindow(cfg, page, tiles[1]).y_start
              >= tiles[1].height
    /\ pc = "found" =>
          LET area == FindArea(cfg, page, local.vertical_band_x,
                               local.vertical_band_width, tiles[1])
          IN  /\ tiles[2].x >= area.x_start /\ tiles[2].x < area.x_stop
              /\ tiles[2].y >= area.y_start /\ tiles[2].y < area.y_stop
              /\ tiles[2].x + tiles[1].width <= page.width
              /\ tiles[2].y + tiles[1].height <= page.height

(***************************************************************************)
(* The end of Stitch.stitch (_ocr, then _save_stitched_image) on every     *)
(* output path of a bounded set: the extensions the encoders are chosen    *)
(* by in lower, upper and mixed case, other extensions and paths without   *)
(* extension.                                                              *)
(***************************************************************************)
SaveExtensions ==
    {<<".", "p", "n", "g">>, <<".", "P", "N", "G">>, <<".", "P", "n", "g">>,
     <<".", "j", "p", "g">>, <<".", "J", "P", "G">>,
     <<".", "j", "p", "e", "g">>, <<".", "J", "P", "E", "G">>,
     <<".", "j", "e", "p", "g">>,
     <<".", "p", "d", "f">>, <<".", "P", "D", "F">>, <<".", "p", "d", "F">>,
     <<".", "t", "i", "f">>, <<".", "p", "n", "g", ".", "t", "i", "f">>,
     <<".", "t", "i", "f", ".", "p", "n", "g">>,
     <<"p", "n", "g">>, <<"p", "d", "f">>, <<>>}

SaveConfigs ==
    {[RunConfig EXCEPT !.output_path = OutputPath(e), !.ocr = o, !.debug = d] :
        e \in SaveExtensions, o \in BOOLEAN, d \in BOOLEAN}

InitSave ==
    /\ cfg \in SaveConfigs
    /\ pc = "ocr"
    /\ index = 0
    /\ original_images = <<>>
    /\ grayscale_images = <<>>
    /\ metadata = <<NoMeta>>
    /\ local = NoLocal
    /\ stitched_image = BlankCanvas(1, 1)
    /\ files = NoFiles
    /\ hist = NoHist
    /\ page = None
    /\ tiles = None

NextSave == Ocr \/ OcrFails \/ SaveStitchedImage

SpecSave == InitSave /\ [][NextSave]_vars

LastDot(path) ==
    IF \E i \in 1 .. Len(path) : path[i] = "."
    THEN CHOOSE i \in 1 .. Len(path) :
            /\ path[i] = "."
            /\ \A k \in i + 1 .. Len(path) : path[k] # "."
    ELSE 0

OutputExtension(path) ==
    IF LastDot(path) = 0 THEN <<>> ELSE Lower(SubSeq(path, LastDot(path), Len(path)))

SupportedExtensions ==
    {<<".", "p", "n", "g">>, <<".", "j", "p", "g">>, <<".", "j", "p", "e", "g">>,
     <<".", "p", "d", "f">>}

(***************************************************************************)
(* C13: an output path whose extension, compared without regard to case,   *)
(* is not .png, .jpg, .jpeg or .pdf makes the run end in an error with no  *)
(* output file written; a path with one of these extensions is never       *)
(* refused for its extension.                                              *)
(***************************************************************************)
C13_ExtensionDecidesAcceptance ==
    /\ OutputExtension(cfg.output_path) \notin SupportedExtensions =>
          /\ files.output = 0
          /\ pc # "done"
    /\ OutputExtension(cfg.output_path) \in SupportedExtensions =>
          hist.error # "extension"

(***************************************************************************)
(* C14: PHASE1 never rotates a page by an angle whose magnitude exceeds    *)
(* rotation_max: after every round made, the angle the page was rotated    *)
(* by in that round (the last assignment of angle) lies in                 *)
(* [-rotation_max, rotation_max].                                          *)
(***************************************************************************)
C14_Phase1RotationWithinMax ==
    (pc \in {"phase1", "phase2"} /\ local.iteration > 0) =>
        /\ local.angle <= cfg.rotation_max
        /\ local.angle >= 0 - cfg.rotation_max

LowMatch(h) ==
    /\ h.matches # <<>>
    /\ \/ h.matches[1] < cfg.tile_match_min
       \/ h.matches[2] < cfg.tile_match_min

(***************************************************************************)
(* C15: a PHASE1 round in which the match score of the top tile or of the  *)
(* bottom tile is below tile_match_min fails its direction in that round   *)
(* with a StitchError: the round computes no rotation delta, is not        *)
(* followed by a further round of that direction and returns no            *)
(* ScanMetadata; the forward direction hands over to the reverse one, the  *)
(* reverse direction ends the run.                                         *)
(***************************************************************************)
C15_LowMatchFailsRound ==
    [][(hist'.rounds # hist.rounds /\ LowMatch(hist')) =>
          /\ pc' # "phase2"
          /\ local'.meta = NoMeta
          /\ IF local.side = "LEFT"
             THEN pc' = "phase1" /\ hist'.forward_failed /\ local' = ReverseLocals(cfg, index)
             ELSE pc' = "error" /\ hist'.error = "phase1" /\ local' = local]_vars

C15_Witness ==
    /\ LowMatch(hist)
    /\ hist.matches[1] >= cfg.tile_match_min
    /\ hist.rounds.reverse = 2
    /\ pc = "error"
    /\ hist.error = "phase1"

(***************************************************************************)
(* C16: the ScanMetadata of page 0 has translate_x = 0 and                 *)
(* translate_y = 0.  When the detector returned an angle of magnitude at   *)
(* most rotation_max, rotate is that angle and the grayscale copy of the   *)
(* page is the page rotated by it; when it returned None, or an angle      *)
(* beyond rotation_max, rotate is 0 and the grayscale copy is unrotated.   *)
(***************************************************************************)
Page0Returned == index = 1 /\ pc \in {"read", "log"}

C16_Page0Metadata ==
    /\ Len(metadata) >= 1 =>
          metadata[1].translate_x = 0 /\ metadata[1].translate_y = 0
    /\ Page0Returned =>
          IF local.detected /\ Abs(local.angle) <= cfg.rotation_max
          THEN /\ metadata[1].rotate = local.angle
               /\ grayscale_images[1] = Rotate(original_images[1], local.angle)
          ELSE /\ metadata[1].rotate = 0
               /\ grayscale_images[1] = original_images[1]

C16_Witness ==
    /\ Page0Returned
    /\ local.detected
    /\ local.angle = 2
    /\ metadata[1].rotate = 2
    /\ grayscale_images[1] # original_images[1]

(***************************************************************************)
(* C17: every ScanMetadata of the metadata list has a rotation of          *)
(* magnitude at most rotation_max, and every rotation PHASE2 evaluates     *)
(* (the page rotated for an evaluation of fun, the best point so far) lies *)
(* in [-rotation_max, rotation_max], also when PHASE1 handed it a          *)
(* starting point outside the interval.                                    *)
(***************************************************************************)
C17_RotationsWithinMax ==
    /\ \A i \in 1 .. Len(metadata) : Abs(metadata[i].rotate) <= cfg.rotation_max
    /\ (pc = "minimize" /\ local.evals >= 1) =>
          /\ Abs(local.best) <= cfg.rotation_max
          /\ Abs(grayscale_images[index + 1].angle) <= cfg.rotation_max

C17_Witness ==
    /\ pc = "minimize"
    /\ local.evals = 1
    /\ local.x0 < 0 - cfg.rotation_max
    /\ local.best = 0 - cfg.rotation_max
    /\ grayscale_images[index + 1].angle = 0 - cfg.rotation_max
    /\ Len(metadata) = 1

(***************************************************************************)
(* C18: in a run without debug mode no debug artifact (the Hough-line dump *)
(* of page 0, the extract and matched page dumps of PHASE1 and PHASE2) is  *)
(* written to the temp directory.                                          *)
(***************************************************************************)
C18_NoDebugArtifactsWithoutDebug == ~cfg.debug => files.tmp = 0

(***************************************************************************)
(* Image.rotation_has_effect on every image of a bounded set of sizes and  *)
(* every angle of a bounded interval, as the test of the PHASE1 loop       *)
(* (Stitch.py 249) applies it to angle_delta.  An angle a stands for the   *)
(* rotation whose tangent is |a| / 4.                                      *)
(***************************************************************************)
EffectMaxSide == 6

EffectMaxAngle == 9

InitEffect ==
    /\ cfg = RunConfig
    /\ pc = "angle_delta"
    /\ index = 0
    /\ original_images = <<>>
    /\ grayscale_images = <<>>
    /\ metadata = <<>>
    /\ \E angle_delta \in -EffectMaxAngle .. EffectMaxAngle :
          local = [NoLocal EXCEPT !.angle_delta = angle_delta]
    /\ stitched_image = EmptyImage
    /\ files = NoFiles
    /\ hist = NoHist
    /\ \E width \in 1 .. EffectMaxSide, height \in 1 .. EffectMaxSide :
          page = [width |-> width, height |-> height]
    /\ tiles = None

RotationHasEffectReturns ==
    /\ pc = "angle_delta"
    /\ pc' = IF RotationHasEffect(page.width, page.height, local.angle_delta)
             THEN "has_effect" ELSE "no_effect"
    /\ UNCHANGED <<cfg, index, original_images, grayscale_images, metadata, local,
                   stitched_image, files, hist, page, tiles>>

NextEffect == RotationHasEffectReturns

SpecEffect == InitEffect /\ [][NextEffect]_vars

(***************************************************************************)
(* C19: rotation_has_effect(angle) is true exactly when                    *)
(* |angle| >= atan(1 / (max(width, height) / 2)), that is when             *)
(* tan|angle| * max(width, height) >= 2, for every image size, odd and     *)
(* very small sizes included.                                              *)
(***************************************************************************)
C19_EffectThreshold ==
    pc \in {"has_effect", "no_effect"} =>
        (pc = "has_effect" <=>
            Abs(local.angle_delta) * Max2(page.width, page.height) >= 2 * 4)

(***************************************************************************)
(* Ocr._create_pdf on every list of texts of a bounded length that         *)
(* _run_tesseract can have read: each text is a line (level 4) or a word   *)
(* (level 5) with a confidence.  The canvas is the sequence of the         *)
(* operations drawn on it: the hidden text of a word (render mode 3) and,  *)
(* in debug mode, the rectangle stroked around it.                         *)
(***************************************************************************)
MaxTexts == 3

MaxConf == 2

OcrTexts ==
    [level : {4, 5}, conf : 0 .. MaxConf, text : {"a", "b"}]

DrawnAlways(config, ocr_text) == TRUE

Drawn(config, ocr_text) ==
    ocr_text.conf >= config.ocr_confidence_min \/ config.debug

RECURSIVE CreatePdf(_, _, _)
CreatePdf(config, texts, canvas) ==
    IF texts = <<>> THEN canvas
    ELSE LET ocr_text == Head(texts)
             draw_text == <<[op |-> "draw_text", ocr_text |-> ocr_text]>>
             rect == IF config.debug
                     THEN <<[op |-> "rect", ocr_text |-> ocr_text,
                             color |-> IF ocr_text.conf >= config.ocr_confidence_min
                                       THEN "GREEN" ELSE "FUCHSIA"]>>
                     ELSE <<>>
         IN  CreatePdf(config, Tail(texts),
                       IF ocr_text.level = 5 /\ Drawn(config, ocr_text)
                       THEN canvas \o draw_text \o rect
                       ELSE canvas)

InitOcr ==
    /\ \E debug \in BOOLEAN : cfg = [RunConfig EXCEPT !.debug = debug]
    /\ pc = "create_pdf"
    /\ index = 0
    /\ original_images = <<>>
    /\ grayscale_images = <<>>
    /\ metadata = <<>>
    /\ \E n \in 0 .. MaxTexts : \E texts \in [1 .. n -> OcrTexts] :
          local = [texts |-> texts, canvas |-> <<>>]
    /\ stitched_image = BlankCanvas(1, 1)
    /\ files = NoFiles
    /\ hist = NoHist
    /\ page = None
    /\ tiles = None

CreatePdfReturns ==
    /\ pc = "create_pdf"
    /\ local' = [local EXCEPT !.canvas = CreatePdf(cfg, local.texts, <<>>)]
    /\ pc' = "save_pdf"
    /\ UNCHANGED <<cfg, index, original_images, grayscale_images, metadata,
                   stitched_image, files, hist, page, tiles>>

NextOcr == CreatePdfReturns

SpecOcr == InitOcr /\ [][NextOcr]_vars

IsDrawText(operation) == operation.op = "draw_text"

TextLayer(canvas) ==
    [k \in 1 .. Len(SelectSeq(canvas, IsDrawText)) |->
        SelectSeq(canvas, IsDrawText)[k].ocr_text]

IsConfidentWord(ocr_text) ==
    ocr_text.level = 5 /\ ocr_text.conf >= cfg.ocr_confidence_min

IsWord(ocr_text) == ocr_text.level = 5

(***************************************************************************)
(* C20: without debug mode the text layer holds exactly the words          *)
(* (level 5) whose confidence is at least ocr_confidence_min, in the order *)
(* of the input.  In debug mode every word is in the layer and is          *)
(* directly followed by a rectangle around it, whose colour for a word     *)
(* below the minimum (FUCHSIA) differs from that of the other words        *)
(* (GREEN).                                                                *)
(***************************************************************************)
C20_TextLayerFiltered ==
    pc = "save_pdf" =>
        IF ~cfg.debug
        THEN /\ TextLayer(local.canvas) = SelectSeq(local.texts, IsConfidentWord)
             /\ Len(local.canvas) = Len(TextLayer(local.canvas))
        ELSE /\ TextLayer(local.canvas) = SelectSeq(local.texts, IsWord)
             /\ Len(local.canvas) = 2 * Len(TextLayer(local.canvas))
             /\ \A k \in 1 .. Len(local.canvas) :
                   IsDrawText(local.canvas[k]) =>
                       /\ k + 1 <= Len(local.canvas)
                       /\ local.canvas[k + 1].op = "rect"
                       /\ local.canvas[k + 1].ocr_text = local.canvas[k].ocr_text
                       /\ local.canvas[k + 1].color =
                             IF local.canvas[k].ocr_text.conf < cfg.ocr_confidence_min
                             THEN "FUCHSIA" ELSE "GREEN"

C20_Witness ==
    /\ pc = "save_pdf"
    /\ ~cfg.debug
    /\ Len(local.texts) = 3
    /\ local.texts[1] = [level |-> 5, conf |-> 2, text |-> "b"]
    /\ local.texts[2] = [level |-> 5, conf |-> 0, text |-> "a"]
    /\ local.texts[3] = [level |-> 5, conf |-> 1, text |-> "a"]
    /\ Len(local.canvas) = 2

(***************************************************************************)
(* C21: a round of a PHASE1 direction that ends without error rotates the  *)
(* original page by the accumulated angle minus the delta measured in the  *)
(* round before.  The loop is left with success after exactly the rounds   *)
(* whose measured delta has no effect on the page or whose number is       *)
(* tile_iterations_max; the ScanMetadata then returned carries the angle   *)
(* of that round, to which the last delta is not applied.                  *)
(***************************************************************************)
C21_Phase1LoopStops ==
    [][(pc = "phase1" /\ local'.iteration = local.iteration + 1) =>
          /\ local'.angle = local.angle - local.angle_delta
          /\ grayscale_images'[index + 1] =
                Rotate(original_images[index + 1], local'.angle)
          /\ pc' \in {"phase1", "phase2"}
          /\ pc' = "phase2" <=>
                \/ ~RotationHasEffect(original_images[index + 1].width,
                                      original_images[index + 1].height,
                                      local'.angle_delta)
                \/ local'.iteration = cfg.tile_iterations_max
          /\ pc' = "phase2" => local'.meta.rotate = local'.angle]_vars

C21_Witness ==
    /\ pc = "phase2"
    /\ local.iteration = cfg.tile_iterations_max
    /\ local.iteration = 2
    /\ RotationHasEffect(original_images[index + 1].width,
                         original_images[index + 1].height, local.angle_delta)
    /\ local.angle # 0
    /\ local.meta.rotate = local.angle

(***************************************************************************)
(* C22: no ScanMetadata is derived from a match whose score is below       *)
(* tile_match_min: the match a helper returned its ScanMetadata from (the  *)
(* top tile match of PHASE1, the large tile match of PHASE2) has a score   *)
(* of at least tile_match_min.                                             *)
(***************************************************************************)
C22_MetadataFromGoodMatch ==
    local.tile_match # NoTile => local.tile_match.match >= cfg.tile_match_min

(***************************************************************************)
(* C23: for a page i >= 1 PHASE2 is entered only after PHASE1 returned a   *)
(* ScanMetadata for the page, in the direction of the PHASE1 attempt that  *)
(* returned (LEFT, sign 1, extracting from page i, unless the forward      *)
(* attempt failed; then RIGHT, sign -1, extracting from page i - 1).  The  *)
(* ScanMetadata appended for the page is the one of PHASE2 (its best       *)
(* rotation and the translation of its final match), and every append      *)
(* adds one ScanMetadata for the page being processed, in page order.      *)
(***************************************************************************)
C23_Phase2AfterPhase1 ==
    [][/\ (pc' = "minimize" /\ pc # "minimize") =>
             /\ pc = "phase2" /\ index >= 1
             /\ local.iteration >= 1 /\ local.meta # NoMeta
             /\ local.side = (IF hist.forward_failed THEN "RIGHT" ELSE "LEFT")
             /\ local'.side = local.side
             /\ local'.sign = (IF local.side = "LEFT" THEN 1 ELSE -1)
             /\ local'.index_extract = (IF local.side = "LEFT" THEN index ELSE index - 1)
             /\ local'.index_matched = (IF local.side = "LEFT" THEN index - 1 ELSE index)
             /\ local'.x0 = local.meta.rotate
       /\ metadata' # metadata =>
             /\ Len(metadata) = index /\ index' = index + 1
             /\ Len(metadata') = index + 1
             /\ SubSeq(metadata', 1, index) = metadata
             /\ index >= 1 =>
                   /\ pc = "minimize"
                   /\ metadata'[index + 1].rotate = local.best
                   /\ metadata'[index + 1].translate_x =
                         local.sign * (local'.tile_match.x - local'.tile_extract.x)
                   /\ metadata'[index + 1].translate_y =
                         local.sign * (local'.tile_match.y - local'.tile_extract.y)]_vars

C23_Witness ==
    /\ Len(metadata) = 2 /\ index = 2
    /\ local.side = "RIGHT"
    /\ local.tile_match # NoTile
    /\ local.index_extract = 0
    /\ metadata[2].translate_x = 0 - (local.tile_match.x - local.tile_extract.x)
    /\ metadata[2].translate_x # 0

(***************************************************************************)
(* C24: the image of every tile the TileExtractor returns is never larger  *)
(* than tile_width x tile_height and lies inside the page; it is exactly   *)
(* tile_width x tile_height in automatic mode, and in manual mode unless   *)
(* the hinted rectangle is clipped at a page border.                       *)
(***************************************************************************)
C24_TileImageSize ==
    pc = "extracted" =>
        \A k \in 1 .. 2 :
            /\ tiles[k].image_width <= cfg.tile_width
            /\ tiles[k].image_height <= cfg.tile_height
            /\ tiles[k].x >= 0 /\ tiles[k].x + tiles[k].image_width <= page.width
            /\ tiles[k].y >= 0 /\ tiles[k].y + tiles[k].image_height <= page.height
            /\ cfg.tile_hint = NoHint =>
                  /\ tiles[k].image_width = cfg.tile_width
                  /\ tiles[k].image_height = cfg.tile_height

PdfWithOcr ==
    cfg.ocr /\ EndsWith(Lower(cfg.output_path), <<".", "p", "d", "f">>)

(***************************************************************************)
(* C25: a run that ends successfully has written the output file exactly   *)
(* once.  The output is written by the OCR step when the output path ends  *)
(* in .pdf and OCR is requested, and by the encode step otherwise; the OCR *)
(* step writes nothing (neither working files nor the output) for another  *)
(* output path or when OCR is not requested.                               *)
(***************************************************************************)
C25_OutputWrittenOnce ==
    [][/\ pc' = "done" => files'.output = 1
       /\ files'.output # files.output =>
             /\ files.output = 0 /\ files'.output = 1
             /\ pc = (IF PdfWithOcr THEN "ocr" ELSE "save")
       /\ (pc = "ocr" /\ files' # files) => PdfWithOcr]_vars

C25_Witness ==
    /\ pc = "done"
    /\ PdfWithOcr
    /\ files.output = 1
    /\ files.work = 3

LastMergeRanges ==
    MergeRanges(hist.merge.destination.width, hist.merge.destination.height,
                hist.merge.source_width, hist.merge.source_height,
                hist.merge.offset_x, hist.merge.offset_y, hist.merge.overlap_x)

(***************************************************************************)
(* C26: every merge_data call of _stitch_images assigns a source slice to  *)
(* a destination slice of the same width and the same height, so the       *)
(* assignment never raises for a shape mismatch.                           *)
(***************************************************************************)
C26_MergeShapesEqual ==
    JustMerged =>
        /\ LastMergeRanges.scols.len = LastMergeRanges.dcols.len
        /\ LastMergeRanges.srows.len = LastMergeRanges.drows.len
        /\ hist.merge.ok
        /\ hist.error # "ValueError"

(***************************************************************************)
(* C27: the rectangle painted for every page (the page at its offsets,     *)
(* without its first overlap_x columns) lies inside the canvas, so no row  *)
(* and no column of a page is clipped, also when a cumulative translate_y  *)
(* is negative.                                                            *)
(***************************************************************************)
C27_PaintedInsideCanvas ==
    JustMerged =>
        /\ hist.merge.offset_x + hist.merge.overlap_x >= 0
        /\ hist.merge.offset_x + hist.merge.source_width <= hist.merge.destination.width
        /\ hist.merge.offset_y >= 0
        /\ hist.merge.offset_y + hist.merge.source_height
              <= hist.merge.destination.height

(***************************************************************************)
(* The entry of PHASE2 (Stitch.py 306-315) after every return of PHASE1    *)
(* for page 1 at angle 0, over a bounded set of margins, vertical offsets, *)
(* tile widths and page widths: the small top tile is extracted at the     *)
(* margin of the extract page and found anywhere in the matched page.      *)
(***************************************************************************)
BandMaxMargin == 2

BandMaxOffset == 2

BandMaxTileWidth == 2

BandMaxPageWidth == 5

BandPageHeight == 9

BandConfigs ==
    {[RunConfig EXCEPT !.paths = 2, !.margin = margin,
                       !.vertical_offset_max = vertical_offset_max,
                       !.tile_width = tile_width] :
        margin \in 0 .. BandMaxMargin, vertical_offset_max \in 0 .. BandMaxOffset,
        tile_width \in 1 .. BandMaxTileWidth}

BandPages ==
    {[width |-> width, height |-> BandPageHeight, angle |-> 0] :
        width \in 3 .. BandMaxPageWidth}

InitBand ==
    /\ cfg \in BandConfigs
    /\ pc = "phase2"
    /\ index = 1
    /\ original_images \in [1 .. 2 -> BandPages]
    /\ grayscale_images = original_images
    /\ metadata = <<ScanMetadata(0, 0, 0, original_images[1].width,
                                 original_images[1].height)>>
    /\ \E side \in {"LEFT", "RIGHT"} :
          LET sign == Phase2Sign(side)
              index_extract == IF side = "LEFT" THEN index ELSE index - 1
              index_matched == IF side = "LEFT" THEN index - 1 ELSE index
          IN  \E t \in ExtractTiles(cfg, side, grayscale_images[index_extract + 1],
                                    NoHint) \ {<<>>} :
                  \E tile_top_match \in FindTile(cfg, grayscale_images[index_matched + 1],
                                                 0, 0, t[1]) :
                      /\ tile_top_match.match >= cfg.tile_match_min
                      /\ local = [NoLocal EXCEPT
                                     !.side = side, !.sign = sign,
                                     !.index_extract = index_extract,
                                     !.index_matched = index_matched,
                                     !.iteration = 1,
                                     !.tile_extract = t[1],
                                     !.tile_match = tile_top_match,
                                     !.meta = Phase1Meta(sign, 0, t[1], tile_top_match,
                                                         grayscale_images[index + 1])]
    /\ stitched_image = EmptyImage
    /\ files = NoFiles
    /\ hist = NoHist
    /\ page = None
    /\ tiles = None

NextBand == Phase2Enter

SpecBand == InitBand /\ [][NextBand]_vars

PredictedX ==
    IF local.side = "LEFT"
    THEN cfg.margin + local.meta.translate_x
    ELSE grayscale_images[index].width - cfg.margin - cfg.tile_width
         - local.meta.translate_x

SearchedWidth ==
    IF local.side = "LEFT" THEN grayscale_images[index].width
    ELSE grayscale_images[index + 1].width

(***************************************************************************)
(* C28: the band PHASE2 searches in, from vertical_band_x over             *)
(* tile_width + 2 * vertical_offset_max columns, contains the whole large  *)
(* tile at the x position the PHASE1 translation predicts and lies inside  *)
(* the page searched.                                                      *)
(***************************************************************************)
C28_BandContainsPrediction ==
    [][(pc = "phase2" /\ pc' = "minimize") =>
          /\ local'.vertical_band_x <= PredictedX
          /\ PredictedX + cfg.tile_width
                <= local'.vertical_band_x + local'.vertical_band_width
          /\ local'.vertical_band_x >= 0
          /\ local'.vertical_band_x + local'.vertical_band_width <= SearchedWidth]_vars

(***************************************************************************)
(* C29: when PHASE1 or PHASE2 returns the ScanMetadata of page i, the      *)
(* grayscale copy of page i is the original page rotated by the returned   *)
(* rotation and the returned width and height are the dimensions of that   *)
(* copy; the colour image painted for page i, the original rotated by the  *)
(* stored rotation, has the width and height of its ScanMetadata.          *)
(***************************************************************************)
C29_MetadataDescribesRotatedPage ==
    /\ pc = "phase2" =>
          /\ grayscale_images[index + 1]
                = Rotate(original_images[index + 1], local.meta.rotate)
          /\ local.meta.width = grayscale_images[index + 1].width
          /\ local.meta.height = grayscale_images[index + 1].height
    /\ \A k \in 2 .. Len(metadata) :
          /\ grayscale_images[k] = Rotate(original_images[k], metadata[k].rotate)
          /\ metadata[k].width = grayscale_images[k].width
          /\ metadata[k].height = grayscale_images[k].height
          /\ PaintSource(k - 1).width = metadata[k].width
          /\ PaintSource(k - 1).height = metadata[k].height

C29_Witness ==
    /\ pc = "done"
    /\ Len(metadata) >= 2
    /\ metadata[2].rotate # 0
    /\ metadata[2].width # original_images[2].width
    /\ grayscale_images[2].width = metadata[2].width

Aligning == pc \in {"phase1", "phase2", "minimize"}

(***************************************************************************)
(* C30: a step of the alignment of page i (PHASE1 in either direction, a   *)
(* failed forward attempt included, and PHASE2) changes no original image, *)
(* no grayscale copy other than that of page i and no ScanMetadata already *)
(* appended; the reverse attempt starts from angle 0 and its first round   *)
(* works on the unrotated page i.                                          *)
(***************************************************************************)
C30_AlignmentFrame ==
    [][Aligning =>
          /\ original_images' = original_images
          /\ Len(grayscale_images') = Len(grayscale_images)
          /\ \A j \in 1 .. Len(grayscale_images) :
                j # index + 1 => grayscale_images'[j] = grayscale_images[j]
          /\ Len(metadata') >= Len(metadata)
          /\ \A k \in 1 .. Len(metadata) : metadata'[k] = metadata[k]
          /\ (hist'.forward_failed /\ ~hist.forward_failed) =>
                /\ local'.side = "RIGHT"
                /\ local'.angle = 0 /\ local'.angle_delta = 0 /\ local'.iteration = 0
          /\ (pc = "phase1" /\ local.side = "RIGHT" /\ local.iteration = 0
                /\ hist'.rounds # hist.rounds) =>
                grayscale_images'[index + 1] = original_images[index + 1]]_vars

C30_Witness ==
    /\ pc = "phase1"
    /\ index >= 1
    /\ hist.forward_failed
    /\ hist.rounds.forward = 2
    /\ local.side = "RIGHT"
    /\ local.iteration = 1
    /\ grayscale_images[index + 1] = original_images[index + 1]
    /\ grayscale_images[index] # original_images[index]


====
